---------------------------- MODULE Spec2Model ----------------------------
(***************************************************************************)
(* A model of the Flashbots bundle engine: the bundle signer               *)
(* (Flashbots.sign_bundle, blocking and cooperative), the send mungers of  *)
(* the blocking engine, the inclusion trackers, simulate and                *)
(* extrapolate_timestamp, the relay provider and the middleware.           *)
(*                                                                         *)
(* Python dicts are functions over their key set, so that a key test       *)
(* ("signer" in tx) is a test on DOMAIN.  Byte strings are records of what *)
(* they decode to; keccak and the hex encodings are injective wrappers.    *)
(***************************************************************************)
EXTENDS Integers, Sequences, FiniteSets, TLC

(***************************************************************************)
(* Bounds of the model.                                                    *)
(***************************************************************************)
MaxLen == 3        \* longest list of transaction specifications
MaxBundle == 2     \* most transactions a tracked bundle holds
MaxHeight == 2     \* highest block height of the chain
MaxPolls == 2      \* most sleeps of one polling loop

Addresses == {"A", "B"}
RecIds == {1, 2, 3, 4}            \* the caller's transaction dicts (objects)
TxCounts == {3, 4}              \* answers of eth.get_transaction_count
GasEstimates == {21}            \* answers of eth.estimate_gas
TargetBlocks == {10, 11}        \* target_block_number arguments

(***************************************************************************)
(* Dicts.                                                                  *)
(***************************************************************************)
EmptyDict == [k \in {} |-> 0]

Put(d, k, v) == [x \in DOMAIN d \cup {k} |-> IF x = k THEN v ELSE d[x]]

Get(d, k, default) == IF k \in DOMAIN d THEN d[k] ELSE default

(***************************************************************************)
(* Bytes of a signed transaction: the leading byte, the address the        *)
(* signature recovers to, and the fields.                                  *)
(***************************************************************************)
LegacyByte == 248
AccessListType == 1
DynamicFeeType == 2
MaxTypedByte == 127

TxBytes(type, from, nonce, gas, data) ==
    [type |-> type, from |-> from, nonce |-> nonce, gas |-> gas, data |-> data]

keccak(b) == [keccak |-> b]

to_hex(b) == [hex |-> b]

\* parse_signed_tx: ok = FALSE stands for ValueError("Unknown transaction type")
parse_signed_tx(signed_tx) ==
    IF signed_tx.type > MaxTypedByte
          \/ signed_tx.type = AccessListType
          \/ signed_tx.type = DynamicFeeType
    THEN [ok |-> TRUE, from |-> signed_tx.from, nonce |-> signed_tx.nonce]
    ELSE [ok |-> FALSE]

\* signer.sign_transaction(tx_dict).rawTransaction
sign_transaction(signer, tx_dict) ==
    TxBytes(LegacyByte, signer, tx_dict.nonce, tx_dict.gas, tx_dict.data)

\* serializable_unsigned_transaction_from_dict + encode_transaction(vrs)
encode_transaction(tx) ==
    TxBytes(IF "maxFeePerGas" \in DOMAIN tx THEN DynamicFeeType ELSE LegacyByte,
            tx.r, tx.nonce, tx.gas, tx.input)

(***************************************************************************)
(* The three shapes of a transaction specification, as the code tests      *)
(* them, in the order it tests them.                                       *)
(***************************************************************************)
IsRawTx(tx) == "signed_transaction" \in DOMAIN tx

IsSignerTx(tx) == ~IsRawTx(tx) /\ "signer" \in DOMAIN tx

IsDictTx(tx) == ~IsRawTx(tx) /\ ~IsSignerTx(tx) /\ {"v", "r", "s"} \subseteq DOMAIN tx

IsOtherTx(tx) == ~IsRawTx(tx) /\ ~IsSignerTx(tx) /\ ~IsDictTx(tx)

FeeFieldsOk(tx) ==
    IF "maxFeePerGas" \in DOMAIN tx \/ "maxPriorityFeePerGas" \in DOMAIN tx
    THEN "maxFeePerGas" \in DOMAIN tx /\ "maxPriorityFeePerGas" \in DOMAIN tx
    ELSE "gasPrice" \in DOMAIN tx

(***************************************************************************)
(* State.  One call of the engine at a time: sign_bundle (both             *)
(* implementations) or the blocking sendBundle, which signs with the same  *)
(* loop.                                                                   *)
(***************************************************************************)
VARIABLES
    mode,                 \* "sync" (blocking) or "async" (cooperative) implementation
    op,                   \* the operation called
    bundled_transactions, \* its list of transaction specifications
    target_block_number,  \* sendBundle's target block
    transaction,          \* sendPrivateTransaction's transaction specification
    max_block_number,     \* sendPrivateTransaction's max_block_number argument
    heap0,                \* the caller's transaction dicts when the call began
    heap,                 \* the caller's transaction dicts now
    pc,                   \* position of the call
    i,                    \* index of the next specification of the for loop
    nonces,               \* sign_bundle's nonce ledger
    signed_transactions,  \* sign_bundle's output list
    err,                  \* the error the call ended in ("" when none)
    queries,              \* get_transaction_count calls made: <<entry, address, answer>>
    current_block,        \* the block height sendPrivateTransaction read
    response,             \* the engine's self.response
    params,               \* the request parameters the munger built
    relay,                \* requests received by the relay
    ret                   \* what the call returned to its caller

VARIABLES
    impl,      \* the tracker's implementation: "sync" or "async"
    tracker,   \* the tracker object
    method,    \* the method called on it
    tpc,       \* position of that call
    fetched,   \* receipts fetched so far by receipts()
    height,    \* the chain: its block height
    txstate,   \* the chain: what it knows of each tracked transaction
    trace,     \* the reads and sleeps of the call, in order
    tret,      \* what the call returned
    terr       \* the error the call ended in ("" when none)

VARIABLES
    thread     \* concurrent calls on one engine: each thread's call and its locals

VARIABLES
    sop,       \* the engine function called: simulate, extrapolate_timestamp, ...
    sargs,     \* its arguments
    spc,       \* position of that call
    slocal,    \* its local variables
    sret,      \* what it returned
    serr,      \* the error it ended in ("" when none)
    head,      \* the chain as the engine's reader sees it: the latest block number
    stamps     \* the chain: the timestamp of each block

VARIABLES
    signature_account,\* the provider's signing identity
    rpc,              \* make_request's arguments: method and params
    rpc_pc,           \* position of that call
    request_counter,  \* the provider's counter of request ids
    request_data,     \* the encoded request
    combined_headers, \* the headers of the request
    posts,            \* the POSTs the transport was given, in order
    reply,            \* what the transport answered
    rpc_ret,          \* what make_request returned
    rpc_err           \* the error it ended in ("" when none)

VARIABLES
    history,   \* the tracker: what its earlier calls reported, in order
    mw,        \* the middleware: the request it was given and its position
    handed,    \* the requests the two handlers were given, in order
    mw_ret     \* what the middleware returned

lateVars == <<history, mw, handed, mw_ret>>

simVars == <<sop, sargs, spc, slocal, sret, serr, head, stamps>>

provVars == <<signature_account, rpc, rpc_pc, request_counter, request_data, combined_headers, posts, reply,
              rpc_ret, rpc_err>>

extVars == <<simVars, provVars, lateVars>>

trackVars == <<impl, tracker, method, tpc, fetched, height, txstate, trace, tret, terr>>

inputVars == <<mode, op, bundled_transactions, target_block_number, transaction,
               max_block_number, heap0>>

loopVars == <<heap, i, nonces, signed_transactions, err, queries>>

sendVars == <<current_block, response, params, relay, ret>>

signVars == <<inputVars, pc, loopVars, sendVars>>

NoResponse == [kind |-> "none"]

NoReturn == [kind |-> "nothing"]

NoParams == <<>>

(***************************************************************************)
(* The inputs.                                                             *)
(***************************************************************************)
RawPool ==
    { TxBytes(LegacyByte, "A", 5, 21, "d"),
      TxBytes(DynamicFeeType, "B", 5, 21, "d"),
      TxBytes(0, "A", 5, 21, "d") }

DictTx(r, nonce, declared) ==
    [v |-> 27, r |-> r, s |-> r, nonce |-> nonce, input |-> "d", value |-> 0,
     gas |-> 21, gasPrice |-> 1, hash |-> declared]

SpecPool ==
    { [signed_transaction |-> b] : b \in RawPool }
    \cup { [signer |-> "A", transaction |-> r] : r \in RecIds }
    \cup { [signer |-> "B", transaction |-> r] : r \in {2, 4} }
    \cup { DictTx("A", 6, keccak(TxBytes(LegacyByte, "A", 6, 21, "d"))),
           DictTx("A", 6, keccak(TxBytes(LegacyByte, "A", 7, 21, "d"))) }
    \cup { [transaction |-> 1] }

RECURSIVE SeqsUpTo(_, _)
SeqsUpTo(S, n) ==
    IF n = 0 THEN {<<>>}
    ELSE LET shorter == SeqsUpTo(S, n - 1)
         IN  shorter \cup { Append(q, x) : q \in {p \in shorter : Len(p) = n - 1}, x \in S }

\* the caller's transaction dicts: two bare, one with gas, one with nonce and gas
InitialHeap ==
    [r \in RecIds |-> CASE r = 3 -> [data |-> "d", gas |-> 30]
                         [] r = 4 -> [data |-> "d", nonce |-> 7, gas |-> 30]
                         [] OTHER -> [data |-> "d"]]

(***************************************************************************)
(* One iteration of sign_bundle's for loop over the specification tx, with *)
(* the ledger ns and the caller's dicts hp.  count and gas are the answers *)
(* of the chain-state reader, should the iteration ask.  The result: the   *)
(* error raised ("" when none), the ledger, the dicts, the transactions    *)
(* appended and the transaction counts queried.                            *)
(***************************************************************************)
Entry(e, ns, hp, out, asked) ==
    [err |-> e, nonces |-> ns, heap |-> hp, out |-> out, asked |-> asked]

\* mutant: the decoded nonce is not recorded in the ledger
SignRawEntryNoLedger(tx, ns, hp) ==
    IF ~parse_signed_tx(tx.signed_transaction).ok
    THEN Entry("UnknownTransactionType", ns, hp, <<>>, <<>>)
    ELSE Entry("", ns, hp, <<tx.signed_transaction>>, <<>>)

\* mutant: a sender's ledger entry, once set, is kept
SignRawEntryFirstWins(tx, ns, hp) ==
    LET tx_params == parse_signed_tx(tx.signed_transaction)
    IN  IF ~tx_params.ok
        THEN Entry("UnknownTransactionType", ns, hp, <<>>, <<>>)
        ELSE Entry("", Put(ns, tx_params.from, Get(ns, tx_params.from, tx_params.nonce + 1)),
                   hp, <<tx.signed_transaction>>, <<>>)

\* lines 131-134: "signed_transaction" in tx
SignRawEntry(tx, ns, hp) ==
    LET tx_params == parse_signed_tx(tx.signed_transaction)
    IN  IF ~tx_params.ok
        THEN Entry("UnknownTransactionType", ns, hp, <<>>, <<>>)
        ELSE Entry("", Put(ns, tx_params.from, tx_params.nonce + 1), hp,
                   <<tx.signed_transaction>>, <<>>)

\* mutant: the reader's answer is used whatever the ledger holds
LedgerNonceFresh(ns, address, count) == count

\* line 139: nonces.get(address, get_transaction_count(address)), the default
\* evaluated (the reader asked) before the ledger is looked up
LedgerNonce(ns, address, count) == Get(ns, address, count)

\* mutant: a copy of the caller's dict is filled in and signed
SignSignerEntryOnCopy(tx, ns, hp, count, gas) ==
    LET signer == tx.signer
        d0 == Put(hp[tx.transaction], "from", signer)
        ask == "nonce" \notin DOMAIN d0
        d1 == IF ask THEN Put(d0, "nonce", LedgerNonce(ns, signer, count)) ELSE d0
        ns1 == Put(ns, signer, d1.nonce + 1)
        d2 == IF "gas" \notin DOMAIN d1 THEN Put(d1, "gas", gas) ELSE d1
    IN  Entry("", ns1, hp, <<sign_transaction(signer, d2)>>,
              IF ask THEN <<[address |-> signer, count |-> count]>> ELSE <<>>)

\* lines 135-144: "signer" in tx
SignSignerEntry(tx, ns, hp, count, gas) ==
    LET signer == tx.signer
        d0 == Put(hp[tx.transaction], "from", signer)
        ask == "nonce" \notin DOMAIN d0
        d1 == IF ask THEN Put(d0, "nonce", LedgerNonce(ns, signer, count)) ELSE d0
        ns1 == Put(ns, signer, d1.nonce + 1)
        d2 == IF "gas" \notin DOMAIN d1 THEN Put(d1, "gas", gas) ELSE d1
    IN  Entry("", ns1, [hp EXCEPT ![tx.transaction] = d2],
              <<sign_transaction(signer, d2)>>,
              IF ask THEN <<[address |-> signer, count |-> count]>> ELSE <<>>)

\* mutant: the re-encoded transaction is appended without comparing hashes
SignDictEntryUnchecked(tx, ns, hp) ==
    IF ~FeeFieldsOk(tx) THEN Entry("FeeFieldsMissing", ns, hp, <<>>, <<>>)
    ELSE Entry("", ns, hp, <<encode_transaction(tx)>>, <<>>)

\* lines 145-170: all of v, r, s in tx
SignDictEntry(tx, ns, hp) ==
    LET raw == encode_transaction(tx)
    IN  IF ~FeeFieldsOk(tx) THEN Entry("FeeFieldsMissing", ns, hp, <<>>, <<>>)
        ELSE IF keccak(raw) # tx.hash THEN Entry("HashMismatch", ns, hp, <<>>, <<>>)
        ELSE Entry("", ns, hp, <<raw>>, <<>>)

\* sync: the if/elif chain has no else; async: lines 137-138
SignOtherEntry(m, tx, ns, hp) ==
    IF m = "sync" THEN Entry("", ns, hp, <<>>, <<>>)
    ELSE Entry("UnsupportedTransaction", ns, hp, <<>>, <<>>)

\* the branches the implementation m has
HasDictBranch(m) == m = "sync"

SignEntry(m, tx, ns, hp, count, gas) ==
    IF IsRawTx(tx) THEN SignRawEntry(tx, ns, hp)
    ELSE IF IsSignerTx(tx) THEN SignSignerEntry(tx, ns, hp, count, gas)
    ELSE IF HasDictBranch(m) /\ IsDictTx(tx) THEN SignDictEntry(tx, ns, hp)
    ELSE SignOtherEntry(m, tx, ns, hp)

(***************************************************************************)
(* The trackers and the request of sendBundle.                             *)
(***************************************************************************)
hex(n) == [hex |-> n]

\* FlashbotsBundleResponse.__init__
FlashbotsBundleResponse(txs, target) ==
    [kind |-> "bundle",
     bundle |-> [k \in 1..Len(txs) |-> [signed_transaction |-> txs[k], hash |-> keccak(txs[k])]],
     target_block_number |-> target]

\* send_raw_bundle_munger, opts = None
send_raw_bundle_munger(txs, target) ==
    <<[txs |-> [k \in 1..Len(txs) |-> to_hex(txs[k])],
       blockNumber |-> hex(target),
       minTimestamp |-> 0, maxTimestamp |-> 0,
       revertingTxHashes |-> <<>>, replacementUuid |-> "None"]>>

(***************************************************************************)
(* The call: the signing loop, one action per branch, then the rest of the *)
(* operation.                                                              *)
(***************************************************************************)
\* FlashbotsPrivateTransactionResponse.__init__
FlashbotsPrivateTransactionResponse(signed_tx, deadline) ==
    [kind |-> "private",
     tx |-> [signed_transaction |-> signed_tx, hash |-> keccak(signed_tx)],
     max_block_number |-> deadline]

(***************************************************************************)
(* sendPrivateTransaction.                                                 *)
(***************************************************************************)
NoBlock == -1                   \* max_block_number = None
DefaultWindow == 25
HeadBlocks == {100, 101}        \* answers of eth.block_number to the engine
MaxBlocks == {0, 130}           \* max_block_number arguments

PrivatePool ==
    { [signed_transaction |-> TxBytes(LegacyByte, "A", 5, 21, "d")],
      [signer |-> "A", transaction |-> 4],
      [signer |-> "A", transaction |-> 1] }

RPCMethod(o) == IF o = "send_bundle" THEN "eth_sendBundle" ELSE "eth_sendPrivateTransaction"

\* mutant: a max_block_number of 0 is taken for a missing one
MaxBlockMissingOrZero(m) == m = NoBlock \/ m = 0

\* line 330: max_block_number is None
MaxBlockMissing(m) == m = NoBlock

\* send_private_transaction_munger, lines 326-336; a signer cannot sign a
\* transaction dict without nonce or gas
send_private_transaction_munger(tx, max_arg, hp, h) ==
    LET signable == IsRawTx(tx) \/ {"nonce", "gas"} \subseteq DOMAIN hp[tx.transaction]
        signed == IF IsRawTx(tx) THEN tx.signed_transaction
                  ELSE sign_transaction(tx.signer, hp[tx.transaction])
        read == MaxBlockMissing(max_arg)
        deadline == IF read THEN h + DefaultWindow ELSE max_arg
    IN  IF ~signable
        THEN [err |-> "TypeError", current_block |-> NoBlock]
        ELSE [err |-> "",
              current_block |-> IF read THEN h ELSE NoBlock,
              signed_transaction |-> signed,
              params |-> <<[tx |-> to_hex(signed), maxBlockNumber |-> deadline]>>,
              response |-> FlashbotsPrivateTransactionResponse(signed, deadline)]

Threads == {1, 2}

\* no simulate, extrapolate_timestamp or bundle_hash call
SimIdle ==
    /\ sop = "none"
    /\ sargs = EmptyDict
    /\ spc = "idle"
    /\ slocal = EmptyDict
    /\ sret = NoReturn
    /\ serr = ""
    /\ head = 0
    /\ stamps = EmptyDict

\* no request of the relay provider
ProvIdle ==
    /\ signature_account = EmptyDict
    /\ rpc = EmptyDict
    /\ rpc_pc = "idle"
    /\ request_counter = 0
    /\ request_data = EmptyDict
    /\ combined_headers = EmptyDict
    /\ posts = <<>>
    /\ reply = EmptyDict
    /\ rpc_ret = NoReturn
    /\ rpc_err = ""

\* no earlier call on the tracker and no request in the middleware
LateIdle ==
    /\ history = <<>>
    /\ mw = [pc |-> "none"]
    /\ handed = <<>>
    /\ mw_ret = NoReturn

ExtIdle == SimIdle /\ ProvIdle /\ LateIdle

\* no concurrent calls
ThreadsIdle == thread = [t \in Threads |-> [pc |-> "none"]]

\* the trackers at rest, while the engine is looked at
TrackIdle ==
    /\ impl = "sync"
    /\ tracker = NoResponse
    /\ method = "none"
    /\ tpc = "idle"
    /\ fetched = <<>>
    /\ height = 0
    /\ txstate = EmptyDict
    /\ trace = <<>>
    /\ tret = NoReturn
    /\ terr = ""

Ops(m) ==
    IF m = "sync" THEN {"sign_bundle", "send_bundle", "send_private_transaction"}
    ELSE {"sign_bundle"}

Init ==
    /\ mode \in {"sync", "async"}
    /\ op \in Ops(mode)
    /\ IF op = "send_private_transaction"
       THEN /\ bundled_transactions = <<>>
            /\ transaction \in PrivatePool
            /\ max_block_number \in {NoBlock} \cup MaxBlocks
            /\ pc = "munger"
       ELSE /\ bundled_transactions \in SeqsUpTo(SpecPool, MaxLen)
            /\ transaction = EmptyDict
            /\ max_block_number = NoBlock
            /\ pc = "loop"
    /\ target_block_number \in (IF op = "send_bundle" THEN TargetBlocks ELSE {0})
    /\ heap0 = InitialHeap
    /\ heap = InitialHeap
    /\ i = 1
    /\ nonces = EmptyDict
    /\ signed_transactions = <<>>
    /\ err = ""
    /\ queries = <<>>
    /\ current_block = NoBlock
    /\ response = NoResponse
    /\ params = NoParams
    /\ relay = <<>>
    /\ ret = NoReturn
    /\ TrackIdle
    /\ ThreadsIdle
    /\ ExtIdle

InLoop == pc = "loop" /\ i <= Len(bundled_transactions)

\* the effect of one iteration r on the call
Iterate(r) ==
    /\ nonces' = r.nonces
    /\ heap' = r.heap
    /\ signed_transactions' = signed_transactions \o r.out
    /\ queries' = queries \o [n \in 1..Len(r.asked) |->
                                [entry |-> i, address |-> r.asked[n].address,
                                 count |-> r.asked[n].count]]
    /\ err' = r.err
    /\ IF r.err = "" THEN pc' = "loop" /\ i' = i + 1
                     ELSE pc' = "raised" /\ i' = i
    /\ UNCHANGED <<inputVars, sendVars, trackVars, thread, extVars>>

SignRaw ==
    /\ InLoop
    /\ IsRawTx(bundled_transactions[i])
    /\ Iterate(SignEntry(mode, bundled_transactions[i], nonces, heap, 0, 0))

SignSigner ==
    /\ InLoop
    /\ IsSignerTx(bundled_transactions[i])
    /\ \E count \in TxCounts, gas \in GasEstimates :
          Iterate(SignEntry(mode, bundled_transactions[i], nonces, heap, count, gas))

SignDict ==
    /\ InLoop
    /\ HasDictBranch(mode)
    /\ IsDictTx(bundled_transactions[i])
    /\ Iterate(SignEntry(mode, bundled_transactions[i], nonces, heap, 0, 0))

SignOther ==
    /\ InLoop
    /\ \/ IsOtherTx(bundled_transactions[i])
       \/ ~HasDictBranch(mode) /\ IsDictTx(bundled_transactions[i])
    /\ Iterate(SignEntry(mode, bundled_transactions[i], nonces, heap, 0, 0))

\* line 171: return signed_transactions
SignReturn ==
    /\ pc = "loop"
    /\ i > Len(bundled_transactions)
    /\ IF op = "sign_bundle"
       THEN pc' = "returned" /\ ret' = [kind |-> "list", list |-> signed_transactions]
       ELSE pc' = "signed" /\ ret' = ret
    /\ UNCHANGED <<inputVars, loopVars, current_block, response, params, relay, trackVars, thread, extVars>>

\* send_bundle_munger, lines 210-212
SendBundleMunger ==
    /\ pc = "signed"
    /\ op = "send_bundle"
    /\ response' = FlashbotsBundleResponse(signed_transactions, target_block_number)
    /\ params' = send_raw_bundle_munger(signed_transactions, target_block_number)
    /\ pc' = "munged"
    /\ UNCHANGED <<inputVars, loopVars, current_block, relay, ret, trackVars, thread, extVars>>

\* send_private_transaction_munger; h is the block height the reader reports
SendPrivateTransactionMunger ==
    /\ pc = "munger"
    /\ op = "send_private_transaction"
    /\ \E h \in HeadBlocks :
          LET m == send_private_transaction_munger(transaction, max_block_number, heap, h)
          IN  /\ err' = m.err
              /\ current_block' = m.current_block
              /\ IF m.err = ""
                 THEN /\ params' = m.params
                      /\ response' = m.response
                      /\ signed_transactions' = <<m.signed_transaction>>
                      /\ pc' = "munged"
                 ELSE /\ UNCHANGED <<params, response, signed_transactions>>
                      /\ pc' = "raised"
    /\ UNCHANGED <<inputVars, heap, i, nonces, queries, relay, ret, trackVars, thread, extVars>>

\* the request reaches the relay
RelayRequest ==
    /\ pc = "munged"
    /\ relay' = Append(relay, [method |-> RPCMethod(op), params |-> params])
    /\ pc' = "sent"
    /\ UNCHANGED <<inputVars, loopVars, current_block, response, params, ret, trackVars, thread, extVars>>

\* raw_bundle_formatter and the formatter of sendPrivateTransaction: the result of
\* the call is self.response
ResponseFormatter ==
    /\ pc = "sent"
    /\ ret' = response
    /\ pc' = "returned"
    /\ UNCHANGED <<inputVars, loopVars, current_block, response, params, relay, trackVars, thread, extVars>>

Next ==
    \/ SignRaw
    \/ SignSigner
    \/ SignDict
    \/ SignOther
    \/ SignReturn
    \/ SendBundleMunger
    \/ SendPrivateTransactionMunger
    \/ RelayRequest
    \/ ResponseFormatter

vars == <<signVars, trackVars, thread, extVars>>

Spec == Init /\ [][Next]_vars

(***************************************************************************)
(* Vocabulary of the claims about sign_bundle.                             *)
(***************************************************************************)
\* sign_bundle returned its list
SignReturned == pc \notin {"loop", "raised"}

\* the loop went past entry j
Processed(j) == j \in 1..Len(bundled_transactions) /\ j < i

\* the sender an entry is for
EntrySender(tx) ==
    IF IsRawTx(tx) THEN tx.signed_transaction.from
    ELSE IF IsSignerTx(tx) THEN tx.signer
    ELSE IF IsDictTx(tx) THEN tx.r
    ELSE "nobody"

EntriesOf(a) ==
    {j \in 1..Len(bundled_transactions) : EntrySender(bundled_transactions[j]) = a}

\* entry j is a SignerPlusFields whose transaction dict holds no nonce when the
\* signer reaches it: none when the call began, and none written by an earlier
\* entry over the same dict
PlainSigner(j) ==
    LET tx == bundled_transactions[j]
    IN  /\ IsSignerTx(tx)
        /\ "nonce" \notin DOMAIN heap0[tx.transaction]
        /\ \A k \in 1..(j - 1) :
              IsSignerTx(bundled_transactions[k])
                 => bundled_transactions[k].transaction # tx.transaction

\* the place in the output of the transaction of a processed entry j: the entries
\* before it that were passed over appended nothing
OutputOf(j) ==
    signed_transactions[j - Cardinality({k \in 1..(j - 1) : IsOtherTx(bundled_transactions[k])})]

\* the signed transaction the i-th specification stands for
SignedFrom(tx) ==
    IF IsRawTx(tx) THEN tx.signed_transaction
    ELSE IF IsSignerTx(tx) THEN sign_transaction(tx.signer, heap[tx.transaction])
    ELSE encode_transaction(tx)

\* the answer of the reader to the transaction-count query of entry j
CountAt(j) == (CHOOSE q \in {queries[k] : k \in 1..Len(queries)} : q.entry = j).count

Min(S) == CHOOSE x \in S : \A y \in S : x <= y

RawThenSigner(j, l) ==
    /\ j < l
    /\ IsRawTx(bundled_transactions[j])
    /\ PlainSigner(l)
    /\ EntrySender(bundled_transactions[j]) = EntrySender(bundled_transactions[l])
    /\ \A m \in (j + 1)..(l - 1) :
          EntrySender(bundled_transactions[m]) # EntrySender(bundled_transactions[j])

HashMismatched(tx) ==
    IsDictTx(tx) /\ FeeFieldsOk(tx) /\ keccak(encode_transaction(tx)) # tx.hash

C4_HashMismatchFails ==
    \A j \in 1..Len(bundled_transactions) :
        (mode = "sync" /\ HashMismatched(bundled_transactions[j])) =>
            /\ i <= j
            /\ Len(signed_transactions) < j
            /\ pc \in {"loop", "raised"}
            /\ (pc = "raised" /\ i = j) => err = "HashMismatch"
            /\ ret = NoReturn /\ response = NoResponse /\ relay = <<>>

\* sendBundle stopped at a mismatching entry after signing an earlier one
C4_Witness ==
    /\ op = "send_bundle"
    /\ pc = "raised"
    /\ err = "HashMismatch"
    /\ HashMismatched(bundled_transactions[i])
    /\ Len(signed_transactions) > 0

(***************************************************************************)
(* C5: sign_bundle never returns a list for an input holding a             *)
(* specification of none of the three shapes.  The blocking implementation *)
(* has no else branch: it passes over the entry and returns.               *)
(***************************************************************************)
C5_UnsupportedRaises ==
    \A j \in 1..Len(bundled_transactions) :
        IsOtherTx(bundled_transactions[j]) =>
            /\ ~SignReturned
            /\ (pc = "raised" /\ i = j) => err = "UnsupportedTransaction"

(***************************************************************************)
(* The inclusion trackers.  The chain is a block height and, for each      *)
(* tracked transaction, whether the node knows it (get_transaction finds   *)
(* it) and whether it is in a block (get_transaction_receipt finds its     *)
(* receipt); both change at any time.  A lookup that finds nothing raises  *)
(* TransactionNotFound.                                                    *)
(***************************************************************************)
Heights == 0..MaxHeight

T1 == TxBytes(LegacyByte, "A", 0, 21, "d")

T2 == TxBytes(LegacyByte, "A", 1, 21, "d")

TrackedHashes == {keccak(T1), keccak(T2)}

None == [kind |-> "None"]

Bool(b) == [kind |-> "bool", value |-> b]

Receipt(h) == [kind |-> "receipt", transactionHash |-> h]

\* the engine at rest, while a tracker is looked at
SignIdle ==
    /\ mode = "sync"
    /\ op = "none"
    /\ bundled_transactions = <<>>
    /\ target_block_number = 0
    /\ transaction = EmptyDict
    /\ max_block_number = NoBlock
    /\ current_block = NoBlock
    /\ heap0 = InitialHeap
    /\ heap = InitialHeap
    /\ pc = "idle"
    /\ i = 1
    /\ nonces = EmptyDict
    /\ signed_transactions = <<>>
    /\ err = ""
    /\ queries = <<>>
    /\ response = NoResponse
    /\ params = NoParams
    /\ relay = <<>>
    /\ ret = NoReturn

TrackInit ==
    /\ SignIdle
    /\ ThreadsIdle
    /\ ExtIdle
    /\ impl \in {"sync", "async"}
    /\ \/ /\ tracker \in { FlashbotsBundleResponse(txs, t) :
                             txs \in SeqsUpTo({T1, T2}, MaxBundle), t \in Heights }
          /\ method \in {"wait", "receipts"}
       \/ /\ tracker \in { FlashbotsPrivateTransactionResponse(T1, m) : m \in Heights }
          /\ method \in {"wait", "receipt"}
    /\ tpc = "poll"
    /\ fetched = <<>>
    /\ height \in Heights
    /\ txstate \in [TrackedHashes -> {"unknown", "pending", "mined"}]
    /\ trace = <<>>
    /\ tret = NoReturn
    /\ terr = ""

Sleeps == Cardinality({n \in 1..Len(trace) : trace[n].ev = "sleep"})

\* w3.eth.block_number
block_number == height

\* w3.eth.get_transaction(hash) finds the transaction
get_transaction(h) == txstate[h] # "unknown"

\* w3.eth.get_transaction_receipt(hash) finds the receipt
get_transaction_receipt(h) == txstate[h] = "mined"

\* mutant: the loop ends one block short of the target
BelowTargetLessOne(h, target) == h + 1 < target

\* mutant: the loop also goes on at the target block
BelowTargetOrAt(h, target) == h <= target

\* FlashbotsBundleResponse.wait, the loop condition
BelowTarget(h, target) == h < target

\* mutant: the deadline is passed two blocks after it
PastDeadlineByTwo(h, deadline) == h > deadline + 1

\* mutant: the deadline block itself counts as past the deadline
PastDeadlineOrAt(h, deadline) == h >= deadline

\* FlashbotsPrivateTransactionResponse.wait, the deadline test
PastDeadline(h, deadline) == h > deadline

\* FlashbotsBundleResponse.wait: one evaluation of the loop condition
BundleWaitPoll ==
    /\ tpc = "poll"
    /\ tracker.kind = "bundle"
    /\ trace' = Append(trace, [ev |-> "block_number", value |-> block_number])
    /\ IF BelowTarget(block_number, tracker.target_block_number)
       THEN tpc' = "sleep" /\ tret' = tret
       ELSE IF method = "wait"
            THEN tpc' = "done" /\ tret' = None
            ELSE tpc' = "fetch" /\ tret' = tret
    /\ UNCHANGED <<impl, tracker, method, fetched, height, txstate, terr>>
    /\ UNCHANGED <<signVars, thread, extVars>>

\* time.sleep(1) / await asyncio.sleep(1), of either tracker
Sleep ==
    /\ tpc = "sleep"
    /\ Sleeps < MaxPolls
    /\ trace' = Append(trace, [ev |-> "sleep"])
    /\ tpc' = "poll"
    /\ UNCHANGED <<impl, tracker, method, fetched, height, txstate, tret, terr>>
    /\ UNCHANGED <<signVars, thread, extVars>>

\* FlashbotsBundleResponse.receipts: the next receipt of the list
ReceiptsFetch ==
    /\ tpc = "fetch"
    /\ tracker.kind = "bundle"
    /\ Len(fetched) < Len(tracker.bundle)
    /\ LET h == tracker.bundle[Len(fetched) + 1].hash
       IN  /\ trace' = Append(trace, [ev |-> "get_transaction_receipt", hash |-> h,
                                      found |-> get_transaction_receipt(h)])
           /\ IF get_transaction_receipt(h)
              THEN fetched' = Append(fetched, Receipt(h)) /\ tpc' = tpc /\ terr' = terr
              ELSE fetched' = fetched /\ tpc' = "raised" /\ terr' = "TransactionNotFound"
    /\ UNCHANGED <<impl, tracker, method, height, txstate, tret>>
    /\ UNCHANGED <<signVars, thread, extVars>>

\* FlashbotsBundleResponse.receipts: the list is returned
ReceiptsReturn ==
    /\ tpc = "fetch"
    /\ tracker.kind = "bundle"
    /\ Len(fetched) = Len(tracker.bundle)
    /\ tret' = [kind |-> "list", list |-> fetched]
    /\ tpc' = "done"
    /\ UNCHANGED <<impl, tracker, method, fetched, height, txstate, trace, terr>>
    /\ UNCHANGED <<signVars, thread, extVars>>

\* FlashbotsPrivateTransactionResponse.wait: the lookup of the try block
PrivateLookup ==
    /\ tpc = "poll"
    /\ tracker.kind = "private"
    /\ trace' = Append(trace, [ev |-> "get_transaction", hash |-> tracker.tx.hash,
                               found |-> get_transaction(tracker.tx.hash)])
    /\ IF get_transaction(tracker.tx.hash)
       THEN IF method = "wait"
            THEN tpc' = "done" /\ tret' = Bool(TRUE)
            ELSE tpc' = "fetch" /\ tret' = tret
       ELSE tpc' = "deadline" /\ tret' = tret
    /\ UNCHANGED <<impl, tracker, method, fetched, height, txstate, terr>>
    /\ UNCHANGED <<signVars, thread, extVars>>

\* FlashbotsPrivateTransactionResponse.wait: the except block
PrivateDeadline ==
    /\ tpc = "deadline"
    /\ trace' = Append(trace, [ev |-> "block_number", value |-> block_number])
    /\ IF PastDeadline(block_number, tracker.max_block_number)
       THEN /\ tpc' = "done"
            /\ tret' = IF method = "wait" THEN Bool(FALSE) ELSE None
       ELSE tpc' = "sleep" /\ tret' = tret
    /\ UNCHANGED <<impl, tracker, method, fetched, height, txstate, terr>>
    /\ UNCHANGED <<signVars, thread, extVars>>

\* FlashbotsPrivateTransactionResponse.receipt: the lookup after wait() was True
PrivateReceipt ==
    /\ tpc = "fetch"
    /\ tracker.kind = "private"
    /\ LET h == tracker.tx.hash
       IN  /\ trace' = Append(trace, [ev |-> "get_transaction_receipt", hash |-> h,
                                      found |-> get_transaction_receipt(h)])
           /\ IF get_transaction_receipt(h)
              THEN tret' = Receipt(h) /\ tpc' = "done" /\ terr' = terr
              ELSE tret' = tret /\ tpc' = "raised" /\ terr' = "TransactionNotFound"
    /\ UNCHANGED <<impl, tracker, method, fetched, height, txstate>>
    /\ UNCHANGED <<signVars, thread, extVars>>

\* the chain: another block height
ChainStep ==
    /\ tpc \notin {"done", "raised"}
    /\ \E h \in Heights \ {height} : height' = h
    /\ UNCHANGED <<impl, tracker, method, tpc, fetched, txstate, trace, tret, terr>>
    /\ UNCHANGED <<signVars, thread, extVars>>

\* the chain: a transaction becomes known, is mined, or is dropped
TxStep ==
    /\ tpc \notin {"done", "raised"}
    /\ \E h \in TrackedHashes :
          \E st \in {"unknown", "pending", "mined"} \ {txstate[h]} :
              txstate' = [txstate EXCEPT ![h] = st]
    /\ UNCHANGED <<impl, tracker, method, tpc, fetched, height, trace, tret, terr>>
    /\ UNCHANGED <<signVars, thread, extVars>>

TrackNext ==
    \/ BundleWaitPoll
    \/ Sleep
    \/ ReceiptsFetch
    \/ ReceiptsReturn
    \/ PrivateLookup
    \/ PrivateDeadline
    \/ PrivateReceipt
    \/ ChainStep
    \/ TxStep

SpecTrack == TrackInit /\ [][TrackNext]_vars

(***************************************************************************)
(* Vocabulary of the claims about the trackers.                            *)
(***************************************************************************)
IsRead(e) == e.ev = "block_number"

IsSleep(e) == e.ev = "sleep"

\* FlashbotsBundleResponse.wait() is over
BundleWaitOver == tpc \in {"fetch", "done", "raised"}

(***************************************************************************)
(* C7: BundleResponse.wait() reads the block height, returns at the first  *)
(* read that is >= the target and sleeps once after each read below it:    *)
(* its reads and sleeps alternate, a read >= the target is the last event  *)
(* and ends the wait, a read below it is followed by one sleep, and the    *)
(* wait is over only after a read >= the target.                           *)
(***************************************************************************)
C7_WaitReturnsAtTarget ==
    tracker.kind = "bundle" =>
        LET w == SelectSeq(trace, LAMBDA e : IsRead(e) \/ IsSleep(e))
            target == tracker.target_block_number
        IN  /\ \A n \in 1..Len(w) :
                  /\ IsRead(w[n]) <=> n % 2 = 1
                  /\ (IsRead(w[n]) /\ w[n].value >= target) => (n = Len(w) /\ BundleWaitOver)
                  /\ (IsRead(w[n]) /\ w[n].value < target) =>
                        IF n = Len(w) THEN tpc = "sleep" ELSE IsSleep(w[n + 1])
            /\ BundleWaitOver => (Len(w) > 0 /\ IsRead(w[Len(w)]) /\ w[Len(w)].value >= target)

\* wait() returned at its third read, the target reached, after two reads below it
C7_Witness ==
    /\ tracker.kind = "bundle"
    /\ method = "wait"
    /\ tpc = "done"
    /\ Len(trace) = 5
    /\ trace[5].value = tracker.target_block_number

(***************************************************************************)
(* C8: receipts() of a bundle of n transactions does not fail: it returns  *)
(* n entries in bundle order, the k-th the receipt of the k-th hash, or    *)
(* None when that transaction was not included.  The code lets the         *)
(* TransactionNotFound of the receipt lookup escape.                       *)
(***************************************************************************)
C8_ReceiptsNeverFail ==
    (tracker.kind = "bundle" /\ method = "receipts") =>
        /\ tpc # "raised"
        /\ tpc = "done" =>
              /\ Len(tret.list) = Len(tracker.bundle)
              /\ \A n \in 1..Len(tracker.bundle) :
                    tret.list[n] \in {Receipt(tracker.bundle[n].hash), None}

(***************************************************************************)
(* C9: PrivateTxResponse.receipt() never ends in an error: it returns the  *)
(* receipt when the transaction was found and None when it expired.  The   *)
(* code lets the TransactionNotFound of the receipt lookup escape when the *)
(* transaction is known to the node and not in a block.                    *)
(***************************************************************************)
C9_ReceiptNeverFails ==
    (tracker.kind = "private" /\ method = "receipt") =>
        /\ tpc # "raised"
        /\ tpc = "done" => tret \in {Receipt(tracker.tx.hash), None}

(***************************************************************************)
(* C10: sendPrivateTransaction without max_block_number uses h + 25, h the *)
(* block height read during the call, as the maxBlockNumber sent to the    *)
(* relay and as the deadline of the tracker it returns; a max_block_number *)
(* given by the caller is used unchanged in both places.                   *)
(***************************************************************************)
C10_DefaultMaxBlock ==
    op = "send_private_transaction" =>
        LET expected == IF max_block_number = NoBlock THEN current_block + 25
                        ELSE max_block_number
        IN  /\ pc \in {"munged", "sent", "returned"} =>
                  /\ max_block_number = NoBlock => current_block \in HeadBlocks
                  /\ params[1].maxBlockNumber = expected
                  /\ response.max_block_number = expected
            /\ pc \in {"sent", "returned"} =>
                  relay = <<[method |-> "eth_sendPrivateTransaction",
                             params |-> <<[tx |-> to_hex(signed_transactions[1]),
                                           maxBlockNumber |-> expected]>>]>>
            /\ pc = "returned" =>
                  ret = FlashbotsPrivateTransactionResponse(signed_transactions[1], expected)

\* head 100 and no max_block_number: 125 sent and 125 in the returned tracker
C10_Witness ==
    /\ op = "send_private_transaction"
    /\ pc = "returned"
    /\ max_block_number = NoBlock
    /\ current_block = 100
    /\ relay[1].params[1].maxBlockNumber = 125
    /\ ret.max_block_number = 125

(***************************************************************************)
(* Concurrent calls of sendBundle and sendPrivateTransaction on one        *)
(* engine, one per thread.  A call is its munger (which stores the tracker *)
(* in self.response), the request to the relay, and its result formatter   *)
(* (which reads self.response).  The engine's self.response, the relay and *)
(* the caller's transaction dicts are shared.                              *)
(***************************************************************************)
\* sign_bundle as a whole, the reader answering count and gas throughout
RECURSIVE SignFrom(_, _, _, _, _, _, _, _)
SignFrom(m, txs, n, ns, hp, out, count, gas) ==
    IF n > Len(txs) THEN [err |-> "", heap |-> hp, out |-> out]
    ELSE LET r == SignEntry(m, txs[n], ns, hp, count, gas)
         IN  IF r.err # "" THEN [err |-> r.err, heap |-> r.heap, out |-> out]
             ELSE SignFrom(m, txs, n + 1, r.nonces, r.heap, out \o r.out, count, gas)

sign_bundle(m, txs, hp, count, gas) == SignFrom(m, txs, 1, EmptyDict, hp, <<>>, count, gas)

ConcBundles ==
    { <<[signed_transaction |-> TxBytes(LegacyByte, "A", 5, 21, "d")]>>,
      <<[signer |-> "A", transaction |-> 1]>>,
      <<[signed_transaction |-> TxBytes(0, "A", 5, 21, "d")]>> }

ConcCalls ==
    { [op |-> "send_bundle", pc |-> "munger", arg |-> b, block |-> t] :
        b \in ConcBundles, t \in TargetBlocks }
    \cup { [op |-> "send_private_transaction", pc |-> "munger", arg |-> tx, block |-> m] :
             tx \in PrivatePool, m \in {NoBlock} \cup MaxBlocks }

ConcInit ==
    /\ SignIdle
    /\ TrackIdle
    /\ ExtIdle
    /\ thread \in [Threads -> ConcCalls]

\* the thread's locals after its munger
Munged(c, signed, tracker_, request) ==
    [op |-> c.op, pc |-> "munged", arg |-> c.arg, block |-> c.block,
     signed_txs |-> signed, created |-> tracker_, params |-> request]

Raised(c, e) == [op |-> c.op, pc |-> "raised", arg |-> c.arg, block |-> c.block, err |-> e]

\* send_bundle_munger, lines 209-212
ConcSendBundleMunger(t) ==
    /\ thread[t].pc = "munger"
    /\ thread[t].op = "send_bundle"
    /\ \E count \in TxCounts, gas \in GasEstimates :
          LET c == thread[t]
              r == sign_bundle("sync", c.arg, heap, count, gas)
              created == FlashbotsBundleResponse(r.out, c.block)
          IN  /\ heap' = r.heap
              /\ IF r.err = ""
                 THEN /\ response' = created
                      /\ thread' = [thread EXCEPT ![t] =
                            Munged(c, r.out, created, send_raw_bundle_munger(r.out, c.block))]
                 ELSE /\ response' = response
                      /\ thread' = [thread EXCEPT ![t] = Raised(c, r.err)]
    /\ UNCHANGED <<inputVars, pc, i, nonces, signed_transactions, err, queries,
                   current_block, params, relay, ret, trackVars, extVars>>

\* send_private_transaction_munger, lines 326-336
ConcSendPrivateTransactionMunger(t) ==
    /\ thread[t].pc = "munger"
    /\ thread[t].op = "send_private_transaction"
    /\ \E h \in HeadBlocks :
          LET c == thread[t]
              m == send_private_transaction_munger(c.arg, c.block, heap, h)
          IN  IF m.err = ""
              THEN /\ response' = m.response
                   /\ thread' = [thread EXCEPT ![t] =
                         Munged(c, <<m.signed_transaction>>, m.response, m.params)]
              ELSE /\ response' = response
                   /\ thread' = [thread EXCEPT ![t] = Raised(c, m.err)]
    /\ UNCHANGED <<inputVars, pc, loopVars, current_block, params, relay, ret, trackVars, extVars>>

\* the request of thread t reaches the relay
ConcRelayRequest(t) ==
    /\ thread[t].pc = "munged"
    /\ relay' = Append(relay, [method |-> RPCMethod(thread[t].op), params |-> thread[t].params])
    /\ thread' = [thread EXCEPT ![t].pc = "sent"]
    /\ UNCHANGED <<inputVars, pc, loopVars, current_block, response, params, ret, trackVars, extVars>>

\* the result formatter of thread t: the value of self.response now
ReadResponse(t) == response

\* raw_bundle_formatter and the formatter of sendPrivateTransaction
ConcResponseFormatter(t) ==
    /\ thread[t].pc = "sent"
    /\ thread' = [thread EXCEPT ![t] =
          [op |-> @.op, pc |-> "returned", arg |-> @.arg, block |-> @.block,
           signed_txs |-> @.signed_txs, created |-> @.created, params |-> @.params,
           ret |-> ReadResponse(t)]]
    /\ UNCHANGED <<signVars, trackVars, extVars>>

ConcNext ==
    \/ \E t \in Threads : ConcSendBundleMunger(t)
    \/ \E t \in Threads : ConcSendPrivateTransactionMunger(t)
    \/ \E t \in Threads : ConcRelayRequest(t)
    \/ \E t \in Threads : ConcResponseFormatter(t)

SpecConc == ConcInit /\ [][ConcNext]_vars

(***************************************************************************)
(* C6: under every interleaving, the tracker a call returns is the one it  *)
(* created: it tracks the transactions that call signed and carries that   *)
(* call's target or max block number.  The engine keeps the tracker in     *)
(* self.response between the munger and the result formatter, and a call   *)
(* whose munger runs in between replaces it.                               *)
(***************************************************************************)
C6_OwnTrackerReturned ==
    \A t \in Threads :
        thread[t].pc = "returned" =>
            /\ thread[t].ret = thread[t].created
            /\ IF thread[t].op = "send_bundle"
               THEN /\ thread[t].ret.kind = "bundle"
                    /\ thread[t].ret.target_block_number = thread[t].block
                    /\ [n \in 1..Len(thread[t].ret.bundle) |->
                          thread[t].ret.bundle[n].signed_transaction] = thread[t].signed_txs
               ELSE /\ thread[t].ret.kind = "private"
                    /\ thread[t].ret.tx.signed_transaction = thread[t].signed_txs[1]
                    /\ thread[t].ret.max_block_number = thread[t].params[1].maxBlockNumber

(***************************************************************************)
(* simulate and extrapolate_timestamp of the blocking engine.  The chain   *)
(* the engine's reader sees has a latest block number, head, which grows   *)
(* while a call runs, and a timestamp for every block.                     *)
(***************************************************************************)
MaxResults == 2      \* most entries of the results list of eth_callBundle

SECONDS_PER_BLOCK == 12

Latest == [kind |-> "latest"]

Tag(n) == [kind |-> "int", value |-> n]

BlockTagInts == {99, 100, 101, 102}

BlockTags == {None, Latest} \cup { Tag(n) : n \in BlockTagInts }

StateBlockTags == {NoBlock, 98}      \* state_block_tag arguments

BlockTimestamps == {NoBlock, 5000}   \* block_timestamp arguments

\* the timestamps of the blocks: 12 or 14 seconds apart
StampTables == { [h \in HeadBlocks |-> 1000 + d * (h - 100)] : d \in {12, 14} }

\* eth_callBundle's results
ResultPool == { [gasUsed |-> 21], [gasUsed |-> 50] }

CallResults ==
    { [bundleHash |-> "bh", coinbaseDiff |-> "cd", results |-> rs] :
        rs \in SeqsUpTo(ResultPool, MaxResults) }

SimBundles ==
    { <<>>,
      <<[signed_transaction |-> TxBytes(LegacyByte, "A", 5, 21, "d")]>>,
      <<[signer |-> "A", transaction |-> 1]>>,
      <<[signed_transaction |-> TxBytes(0, "A", 5, 21, "d")]>> }

\* mutant: an extrapolation by no block is refused too
NegativeOrNoDelta(block_delta) == block_delta <= 0

\* line 261: block_delta < 0
NegativeDelta(block_delta) == block_delta < 0

\* extrapolate_timestamp, lines 259-263; table answers get_block(...)["timestamp"]
extrapolate_timestamp(block_tag, latest_block_number, table) ==
    LET block_delta == block_tag - latest_block_number
    IN  IF NegativeDelta(block_delta)
        THEN [err |-> "NegativeExtrapolation"]
        ELSE [err |-> "",
              value |-> table[latest_block_number] + (block_delta * SECONDS_PER_BLOCK)]

\* mutant: the gasUsed of the last result only
RECURSIVE reduce_last_gas(_, _)
reduce_last_gas(a, results) ==
    IF results = <<>> THEN a
    ELSE reduce_last_gas(Head(results).gasUsed, Tail(results))

\* line 256: reduce(lambda a, b: a + b["gasUsed"], results, a)
RECURSIVE reduce_gas(_, _)
reduce_gas(a, results) ==
    IF results = <<>> THEN a
    ELSE reduce_gas(a + Head(results).gasUsed, Tail(results))

\* tx.hex() of line 274
bytes_hex(b) == [hex |-> b]

\* call_bundle_munger, lines 273-279
call_bundle_munger(txs, evm_block_number, evm_block_state_number, evm_timestamp) ==
    <<[txs |-> [n \in 1..Len(txs) |-> bytes_hex(txs[n])],
       blockNumber |-> evm_block_number,
       stateBlockNumber |-> evm_block_state_number,
       timestamp |-> evm_timestamp]>>

SimCalls ==
    { [bundled_transactions |-> b, block_tag |-> t, state_block_tag |-> st,
       block_timestamp |-> ts] :
        b \in SimBundles, t \in BlockTags, st \in StateBlockTags, ts \in BlockTimestamps }

ExtrapolateCalls ==
    { [block_tag |-> b, latest_block_number |-> h] : b \in BlockTagInts, h \in HeadBlocks }

\* mutant: the hashes combined without regard to their order
concat_unordered(hashes) == { hashes[n] : n \in 1..Len(hashes) }

\* line 78: reduce(lambda a, b: a + b, hashes); every hash is one 32-byte word, so
\* the concatenation is the sequence of the words
RECURSIVE concat_from(_, _)
concat_from(a, hashes) ==
    IF hashes = <<>> THEN a ELSE concat_from(a \o <<Head(hashes)>>, Tail(hashes))

concat_hashes(hashes) == concat_from(<<Head(hashes)>>, Tail(hashes))

\* FlashbotsBundleResponse.bundle_hash, lines 76-79; reduce without an initial value
\* raises TypeError on an empty list
bundle_hash(t) ==
    LET hashes == [n \in 1..Len(t.bundle) |-> t.bundle[n].hash]
    IN  IF hashes = <<>> THEN [err |-> "TypeError"]
        ELSE [err |-> "", value |-> keccak(concat_hashes(hashes))]

BundleTrackers ==
    { FlashbotsBundleResponse(txs, t) : txs \in SeqsUpTo({T1, T2}, MaxBundle), t \in Heights }

SimInit ==
    /\ SignIdle
    /\ TrackIdle
    /\ ThreadsIdle
    /\ ProvIdle
    /\ LateIdle
    /\ head \in HeadBlocks
    /\ stamps \in StampTables
    /\ \/ sop = "simulate" /\ sargs \in SimCalls /\ spc = "resolve"
       \/ /\ sop = "extrapolate_timestamp"
          /\ sargs \in {c \in ExtrapolateCalls : c.latest_block_number <= head}
          /\ spc = "called"
       \/ /\ sop = "bundle_hash"
          /\ sargs \in { [trackers |-> <<a, b>>] : a \in BundleTrackers, b \in BundleTrackers }
          /\ spc = "called"
    /\ slocal = EmptyDict
    /\ sret = NoReturn
    /\ serr = ""

\* simulate, line 244
SimResolve ==
    /\ sop = "simulate"
    /\ spc = "resolve"
    /\ slocal' = [block_number |->
                    IF sargs.block_tag \in {None, Latest} THEN head
                    ELSE sargs.block_tag.value]
    /\ spc' = "timestamp"
    /\ UNCHANGED <<sop, sargs, sret, serr, head, stamps>>
    /\ UNCHANGED <<signVars, trackVars, thread, provVars, lateVars>>

\* simulate, lines 245-247
SimTimestamp ==
    /\ sop = "simulate"
    /\ spc = "timestamp"
    /\ LET block_number_ == slocal.block_number
           state == IF sargs.state_block_tag # NoBlock
                    THEN hex(sargs.state_block_tag) ELSE hex(block_number_ - 1)
           t == IF sargs.block_timestamp # NoBlock
                THEN [err |-> "", value |-> sargs.block_timestamp]
                ELSE extrapolate_timestamp(block_number_, head, stamps)
       IN  IF t.err # ""
           THEN /\ spc' = "raised"
                /\ serr' = t.err
                /\ slocal' = slocal
           ELSE /\ spc' = "sign"
                /\ serr' = serr
                /\ slocal' = [block_number |-> block_number_,
                              evm_block_number |-> hex(block_number_),
                              evm_block_state_number |-> state,
                              evm_timestamp |-> t.value]
    /\ UNCHANGED <<sop, sargs, sret, head, stamps>>
    /\ UNCHANGED <<signVars, trackVars, thread, provVars, lateVars>>

\* simulate, line 248
SimSign ==
    /\ sop = "simulate"
    /\ spc = "sign"
    /\ \E count \in TxCounts, gas \in GasEstimates :
          LET r == sign_bundle("sync", sargs.bundled_transactions, heap, count, gas)
          IN  /\ heap' = r.heap
              /\ IF r.err # ""
                 THEN spc' = "raised" /\ serr' = r.err /\ slocal' = slocal
                 ELSE /\ spc' = "call"
                      /\ serr' = serr
                      /\ slocal' = [x \in DOMAIN slocal \cup {"signed_bundled_transactions"} |->
                                      IF x = "signed_bundled_transactions" THEN r.out
                                      ELSE slocal[x]]
    /\ UNCHANGED <<sop, sargs, sret, head, stamps>>
    /\ UNCHANGED <<inputVars, pc, i, nonces, signed_transactions, err, queries, sendVars,
                   trackVars, thread, provVars, lateVars>>

\* simulate, lines 250-257: the relay answers with a call result, or with an error
SimCallBundle ==
    /\ sop = "simulate"
    /\ spc = "call"
    /\ relay' = Append(relay,
          [method |-> "eth_callBundle",
           params |-> call_bundle_munger(slocal.signed_bundled_transactions,
                         slocal.evm_block_number, slocal.evm_block_state_number,
                         slocal.evm_timestamp)])
    /\ \/ \E call_result \in CallResults :
             /\ spc' = "returned"
             /\ slocal' = [x \in DOMAIN slocal \cup {"call_result"} |->
                             IF x = "call_result" THEN call_result ELSE slocal[x]]
             /\ sret' = [bundleHash |-> call_result.bundleHash,
                         coinbaseDiff |-> call_result.coinbaseDiff,
                         results |-> call_result.results,
                         signedBundledTransactions |-> slocal.signed_bundled_transactions,
                         totalGasUsed |-> reduce_gas(0, call_result.results)]
             /\ serr' = serr
       \/ /\ spc' = "raised"
          /\ serr' = "RelayError"
          /\ UNCHANGED <<slocal, sret>>
    /\ UNCHANGED <<sop, sargs, head, stamps>>
    /\ UNCHANGED <<inputVars, pc, loopVars, current_block, response, params, ret,
                   trackVars, thread, provVars, lateVars>>

\* extrapolate_timestamp called by itself
ExtrapolateCall ==
    /\ sop = "extrapolate_timestamp"
    /\ spc = "called"
    /\ LET t == extrapolate_timestamp(sargs.block_tag, sargs.latest_block_number, stamps)
       IN  IF t.err # ""
           THEN spc' = "raised" /\ serr' = t.err /\ sret' = sret
           ELSE spc' = "returned" /\ serr' = serr /\ sret' = [kind |-> "int", value |-> t.value]
    /\ UNCHANGED <<sop, sargs, slocal, head, stamps>>
    /\ UNCHANGED <<signVars, trackVars, thread, provVars, lateVars>>

\* the chain: another block
SimChainStep ==
    /\ spc \notin {"returned", "raised"}
    /\ head' \in {h \in HeadBlocks : h > head}
    /\ UNCHANGED <<sop, sargs, spc, slocal, sret, serr, stamps>>
    /\ UNCHANGED <<signVars, trackVars, thread, provVars, lateVars>>

\* bundle_hash() of one of the trackers
BundleHashCall ==
    /\ sop = "bundle_hash"
    /\ spc = "called"
    /\ \E k \in {1, 2} \ DOMAIN slocal :
          /\ slocal' = Put(slocal, k, bundle_hash(sargs.trackers[k]))
          /\ spc' = IF DOMAIN slocal' = {1, 2} THEN "returned" ELSE "called"
    /\ UNCHANGED <<sop, sargs, sret, serr, head, stamps>>
    /\ UNCHANGED <<signVars, trackVars, thread, provVars, lateVars>>

SimNext ==
    \/ BundleHashCall
    \/ SimResolve
    \/ SimTimestamp
    \/ SimSign
    \/ SimCallBundle
    \/ ExtrapolateCall
    \/ SimChainStep

SpecSim == SimInit /\ [][SimNext]_vars

(***************************************************************************)
(* C11: extrapolate_timestamp(b, h) fails for every b < h and otherwise    *)
(* returns t_h + (b - h) * 12, t_h the timestamp of block h: b = h gives   *)
(* t_h and b = h + 1 gives t_h + 12.                                       *)
(***************************************************************************)
C11_Extrapolation ==
    (sop = "extrapolate_timestamp" /\ spc # "called") =>
        LET b == sargs.block_tag
            h == sargs.latest_block_number
        IN  /\ b < h <=> spc = "raised"
            /\ b < h => serr = "NegativeExtrapolation"
            /\ b >= h => /\ spc = "returned"
                         /\ sret.value = stamps[h] + (b - h) * 12
            /\ b = h => sret.value = stamps[h]
            /\ b = h + 1 => sret.value = stamps[h] + 12

C11_Witness ==
    /\ sop = "extrapolate_timestamp"
    /\ sargs.block_tag = 101
    /\ sargs.latest_block_number = 100
    /\ stamps[101] # stamps[100] + 12
    /\ spc = "returned"
    /\ sret.value = stamps[100] + 12

(***************************************************************************)
(* C12: the totalGasUsed that simulate returns is the sum of the gasUsed   *)
(* of all entries of the relay's results list, 0 when the list is empty.   *)
(***************************************************************************)
RECURSIVE GasOfFirst(_, _)
GasOfFirst(results, n) ==
    IF n = 0 THEN 0 ELSE GasOfFirst(results, n - 1) + results[n].gasUsed

C12_TotalGasIsSum ==
    (sop = "simulate" /\ spc = "returned") =>
        /\ sret.results = slocal.call_result.results
        /\ sret.totalGasUsed =
              GasOfFirst(slocal.call_result.results, Len(slocal.call_result.results))
        /\ slocal.call_result.results = <<>> => sret.totalGasUsed = 0

C12_Witness ==
    /\ sop = "simulate"
    /\ spc = "returned"
    /\ slocal.call_result.results = <<[gasUsed |-> 21], [gasUsed |-> 50]>>
    /\ sret.totalGasUsed = 71

(***************************************************************************)
(* C13: bundle_hash() is a function of the ordered sequence of the         *)
(* bundle's transaction hashes only: two trackers over the same signed     *)
(* transactions in the same order give the same bundle hash, and two       *)
(* trackers over the same transactions in a different order give different *)
(* bundle hashes.                                                          *)
(***************************************************************************)
TxsOf(t) == [n \in 1..Len(t.bundle) |-> t.bundle[n].signed_transaction]

Occurrences(q, x) == Cardinality({n \in 1..Len(q) : q[n] = x})

Reordered(p, q) ==
    /\ p # q
    /\ Len(p) = Len(q)
    /\ \A x \in {T1, T2} : Occurrences(p, x) = Occurrences(q, x)

C13_BundleHashOrdered ==
    (sop = "bundle_hash" /\ spc = "returned") =>
        LET a == sargs.trackers[1]
            b == sargs.trackers[2]
        IN  /\ TxsOf(a) = TxsOf(b) => slocal[1] = slocal[2]
            /\ Reordered(TxsOf(a), TxsOf(b)) =>
                  /\ slocal[1].err = ""
                  /\ slocal[2].err = ""
                  /\ slocal[1].value # slocal[2].value

C13_Witness ==
    /\ sop = "bundle_hash"
    /\ spc = "returned"
    /\ TxsOf(sargs.trackers[1]) = <<T1, T2>>
    /\ TxsOf(sargs.trackers[2]) = <<T2, T1>>
    /\ sargs.trackers[1].target_block_number # sargs.trackers[2].target_block_number
    /\ slocal[1].value # slocal[2].value

(***************************************************************************)
(* The relay provider: FlashbotProvider._get_flashbots_headers and         *)
(* make_request (the blocking and the cooperative provider have the same   *)
(* steps).  The transport given a POST raises (connection error, timeout)  *)
(* or answers with a status and a content.                                 *)
(***************************************************************************)
MaxRequests == 2     \* most make_request calls of one provider

SignatureHeader == "X-Flashbots-Signature"

Accounts ==
    { [address |-> "0xS1", private_key |-> "k1"],
      [address |-> "0xS2", private_key |-> "k2"] }

RelayMethods == {"eth_sendBundle", "eth_callBundle"}

RelayParams == { <<"p1">>, <<"p2">> }

\* encode_rpc_request of line 51: the JSON text of the envelope, id the provider's
\* request counter
encode_rpc_request(m, ps, id) == [jsonrpc |-> "2.0", method |-> m, params |-> ps, id |-> id]

\* request_data.decode("utf-8"), line 41
decode_utf8(data) == [text |-> data]

\* encode_defunct(text=...), line 43
encode_defunct(text) == [defunct |-> text]

\* Account.sign_message, line 44
sign_message(message, private_key) == [signed |-> message, key |-> private_key]

\* mutant: the signed text is the method of the request, not its body
SignedTextOfMethod(data) == [text |-> data.method]

\* line 41: the text that is hashed and signed
SignedText(data) == decode_utf8(data)

\* _get_flashbots_headers, lines 40-47
get_flashbots_headers(account, data) ==
    LET request_text == SignedText(data)
        message == encode_defunct(to_hex(keccak(request_text)))
        signed_message == sign_message(message, account.private_key)
    IN  Put(EmptyDict, SignatureHeader,
            [address |-> account.address, signature |-> to_hex(signed_message)])

\* get_request_headers(): the provider's own headers, with or without a signature
\* header of their own
RequestHeaders ==
    { Put(EmptyDict, "Content-Type", [value |-> "application/json"]),
      Put(Put(EmptyDict, "Content-Type", [value |-> "application/json"]),
          SignatureHeader,
          [address |-> "0xS1",
           signature |-> to_hex(sign_message(
               encode_defunct(to_hex(keccak(decode_utf8(
                   encode_rpc_request("eth_sendBundle", <<"p0">>, 0))))), "k1"))]) }

\* mutant: the headers of the left operand win
MergeLeft(a, b) == [k \in DOMAIN a \cup DOMAIN b |-> IF k \in DOMAIN a THEN a[k] ELSE b[k]]

\* line 52: a | b
Merge(a, b) == [k \in DOMAIN a \cup DOMAIN b |-> IF k \in DOMAIN b THEN b[k] ELSE a[k]]

Contents ==
    { [json |-> TRUE, body |-> [result |-> "ok"]],
      [json |-> TRUE, body |-> [error |-> "refused"]],
      [json |-> FALSE] }

\* what session.request does with a POST
TransportOutcomes ==
    { [kind |-> "exception", error |-> e] : e \in {"ConnectionError", "Timeout"} }
    \cup { [kind |-> "response", status |-> st, content |-> c] :
             st \in {200, 500}, c \in Contents }

\* decode_rpc_response, line 61
decode_rpc_response(raw_response) ==
    IF raw_response.json THEN [err |-> "", value |-> raw_response.body]
    ELSE [err |-> "JSONDecodeError"]

HeaderCalls ==
    { [bodies |-> <<encode_rpc_request(m1, p1, 0), encode_rpc_request(m2, p2, 0)>>,
       accounts |-> <<a1, a2>>] :
        m1 \in RelayMethods, m2 \in RelayMethods, p1 \in RelayParams, p2 \in RelayParams,
        a1 \in Accounts, a2 \in Accounts }

NewRequest(n) == { [call |-> n, method |-> m, params |-> ps] : m \in RelayMethods, ps \in RelayParams }

ProvInit ==
    /\ SignIdle
    /\ TrackIdle
    /\ ThreadsIdle
    /\ LateIdle
    /\ head = 0
    /\ stamps = EmptyDict
    /\ slocal = EmptyDict
    /\ sret = NoReturn
    /\ serr = ""
    /\ signature_account \in Accounts
    /\ request_counter = 0
    /\ request_data = EmptyDict
    /\ combined_headers = EmptyDict
    /\ posts = <<>>
    /\ reply = EmptyDict
    /\ rpc_ret = NoReturn
    /\ rpc_err = ""
    /\ \/ /\ sop = "get_flashbots_headers"
          /\ sargs \in HeaderCalls
          /\ spc = "called"
          /\ rpc = EmptyDict
          /\ rpc_pc = "idle"
       \/ /\ sop = "none"
          /\ sargs = EmptyDict
          /\ spc = "idle"
          /\ rpc \in NewRequest(1)
          /\ rpc_pc = "encode"

\* _get_flashbots_headers called by itself, on the first or the second body
HeadersCall ==
    /\ sop = "get_flashbots_headers"
    /\ spc = "called"
    /\ \E k \in {1, 2} \ DOMAIN slocal :
          /\ slocal' = Put(slocal, k, get_flashbots_headers(sargs.accounts[k], sargs.bodies[k]))
          /\ spc' = IF DOMAIN slocal' = {1, 2} THEN "returned" ELSE "called"
    /\ UNCHANGED <<sop, sargs, sret, serr, head, stamps>>
    /\ UNCHANGED <<signVars, trackVars, thread, provVars, lateVars>>

\* make_request, line 51
Encode ==
    /\ rpc_pc = "encode"
    /\ request_data' = encode_rpc_request(rpc.method, rpc.params, request_counter)
    /\ request_counter' = request_counter + 1
    /\ rpc_pc' = "headers"
    /\ UNCHANGED <<signature_account, rpc, combined_headers, posts, reply, rpc_ret, rpc_err>>
    /\ UNCHANGED <<signVars, trackVars, thread, simVars, lateVars>>

\* make_request, line 52
Headers ==
    /\ rpc_pc = "headers"
    /\ \E base \in RequestHeaders :
          combined_headers' =
              Merge(base, get_flashbots_headers(signature_account, request_data))
    /\ rpc_pc' = "post"
    /\ UNCHANGED <<signature_account, rpc, request_counter, request_data, posts, reply,
                   rpc_ret, rpc_err>>
    /\ UNCHANGED <<signVars, trackVars, thread, simVars, lateVars>>

\* make_request, lines 53-60: session.request raises or answers
Post ==
    /\ rpc_pc = "post"
    /\ posts' = Append(posts, [call |-> rpc.call, data |-> request_data,
                               headers |-> combined_headers])
    /\ \E outcome \in TransportOutcomes :
          /\ reply' = outcome
          /\ IF outcome.kind = "exception"
             THEN rpc_pc' = "raised" /\ rpc_err' = outcome.error
             ELSE rpc_pc' = "decode" /\ rpc_err' = rpc_err
    /\ UNCHANGED <<signature_account, rpc, request_counter, request_data, combined_headers,
                   rpc_ret>>
    /\ UNCHANGED <<signVars, trackVars, thread, simVars, lateVars>>

\* make_request, lines 61-63
Decode ==
    /\ rpc_pc = "decode"
    /\ LET decoded_response == decode_rpc_response(reply.content)
       IN  IF decoded_response.err # ""
           THEN rpc_pc' = "raised" /\ rpc_err' = decoded_response.err /\ rpc_ret' = rpc_ret
           ELSE rpc_pc' = "returned" /\ rpc_err' = rpc_err /\ rpc_ret' = decoded_response.value
    /\ UNCHANGED <<signature_account, rpc, request_counter, request_data, combined_headers,
                   posts, reply>>
    /\ UNCHANGED <<signVars, trackVars, thread, simVars, lateVars>>

\* the next make_request call of the same provider
NextRequest ==
    /\ rpc_pc \in {"returned", "raised"}
    /\ rpc.call < MaxRequests
    /\ rpc' \in NewRequest(rpc.call + 1)
    /\ rpc_pc' = "encode"
    /\ request_data' = EmptyDict
    /\ combined_headers' = EmptyDict
    /\ reply' = EmptyDict
    /\ rpc_ret' = NoReturn
    /\ rpc_err' = ""
    /\ UNCHANGED <<signature_account, request_counter, posts>>
    /\ UNCHANGED <<signVars, trackVars, thread, simVars, lateVars>>

ProvNext ==
    \/ HeadersCall
    \/ Encode
    \/ Headers
    \/ Post
    \/ Decode
    \/ NextRequest

SpecProv == ProvInit /\ [][ProvNext]_vars

(***************************************************************************)
(* C14: the X-Flashbots-Signature header is a function of the request body *)
(* and the signing identity alone: the same body and identity give the     *)
(* same header, and bodies that differ give different headers.             *)
(***************************************************************************)
C14_HeaderOfBodyAndIdentity ==
    (sop = "get_flashbots_headers" /\ spc = "returned") =>
        /\ DOMAIN slocal[1] = {SignatureHeader}
        /\ (sargs.bodies[1] = sargs.bodies[2] /\ sargs.accounts[1] = sargs.accounts[2])
              => slocal[1] = slocal[2]
        /\ sargs.bodies[1] # sargs.bodies[2] => slocal[1] # slocal[2]

C14_Witness ==
    /\ sop = "get_flashbots_headers"
    /\ spc = "returned"
    /\ sargs.accounts[1] = sargs.accounts[2]
    /\ sargs.bodies[1].method = sargs.bodies[2].method
    /\ sargs.bodies[1].params # sargs.bodies[2].params
    /\ slocal[1] # slocal[2]

(***************************************************************************)
(* C15: for every relay request, the bytes the X-Flashbots-Signature       *)
(* header is computed over are the bytes sent as the POST body of that     *)
(* request, and no header computed for one request is attached to another. *)
(***************************************************************************)
C15_HeaderOverPostedBody ==
    /\ \A n \in 1..Len(posts) :
          /\ SignatureHeader \in DOMAIN posts[n].headers
          /\ posts[n].headers[SignatureHeader] =
                [address |-> signature_account.address,
                 signature |-> to_hex(sign_message(
                     encode_defunct(to_hex(keccak(decode_utf8(posts[n].data)))),
                     signature_account.private_key))]
    /\ \A n, k \in 1..Len(posts) :
          posts[n].data # posts[k].data =>
              posts[n].headers[SignatureHeader] # posts[k].headers[SignatureHeader]

C15_Witness ==
    /\ Len(posts) = 2
    /\ posts[1].data.method = posts[2].data.method
    /\ posts[1].data.params = posts[2].data.params
    /\ posts[1].headers[SignatureHeader] # posts[2].headers[SignatureHeader]

(***************************************************************************)
(* C16: each make_request issues exactly one POST; after a transport       *)
(* failure (connection error, timeout, non-success status) no further POST *)
(* is issued for that call and the failure reaches the caller as an error, *)
(* not as a decoded response.  The code never looks at the status.         *)
(***************************************************************************)
PostsOf(c) == Cardinality({n \in 1..Len(posts) : posts[n].call = c})

TransportFailed ==
    /\ reply # EmptyDict
    /\ \/ reply.kind = "exception"
       \/ reply.kind = "response" /\ reply.status \notin 200..299

C16_OnePostNoRetry ==
    /\ rpc_pc \in {"returned", "raised"} => PostsOf(rpc.call) = 1
    /\ (rpc_pc # "idle" /\ rpc_pc # "decode" /\ TransportFailed) =>
          /\ rpc_pc = "raised"
          /\ PostsOf(rpc.call) = 1

(***************************************************************************)
(* The blocking and the cooperative implementation side by side: the same  *)
(* call made on each, the chain-state reader giving both the same answers. *)
(***************************************************************************)
\* FlashbotsBundleResponse.wait of implementation m, the reader answering the block
\* heights reads in turn: the reads and sleeps made, and whether it returned
RECURSIVE bundle_wait(_, _, _, _)
bundle_wait(m, reads, target, tr) ==
    IF reads = <<>> THEN [outcome |-> "polling", trace |-> tr]
    ELSE LET tr1 == Append(tr, [ev |-> "block_number", value |-> Head(reads)])
         IN  IF BelowTarget(Head(reads), target)
             THEN bundle_wait(m, Tail(reads), target,
                              Append(tr1, [ev |-> "sleep", seconds |-> 1]))
             ELSE [outcome |-> "returned", trace |-> tr1]

\* FlashbotsPrivateTransactionResponse.wait of implementation m, the reader answering
\* each lookup (found or not) and each block height read
RECURSIVE private_wait(_, _, _, _)
private_wait(m, answers, deadline, tr) ==
    IF answers = <<>> THEN [outcome |-> "polling", trace |-> tr]
    ELSE LET a == Head(answers)
             tr1 == Append(tr, [ev |-> "get_transaction", found |-> a.found])
             tr2 == Append(tr1, [ev |-> "block_number", value |-> a.height])
         IN  IF a.found THEN [outcome |-> "True", trace |-> tr1]
             ELSE IF PastDeadline(a.height, deadline) THEN [outcome |-> "False", trace |-> tr2]
             ELSE private_wait(m, Tail(answers), deadline,
                               Append(tr2, [ev |-> "sleep", seconds |-> 1]))

ReaderAnswers == { [found |-> f, height |-> h] : f \in BOOLEAN, h \in Heights }

BothCalls ==
    { [fn |-> "sign_bundle", bundled_transactions |-> txs, count |-> c, gas |-> g] :
        txs \in SeqsUpTo(SpecPool, MaxLen), c \in TxCounts, g \in GasEstimates }
    \cup { [fn |-> "bundle_wait", reads |-> r, target |-> t] :
             r \in SeqsUpTo(Heights, MaxPolls), t \in Heights }
    \cup { [fn |-> "private_wait", answers |-> a, deadline |-> d] :
             a \in SeqsUpTo(ReaderAnswers, MaxPolls), d \in Heights }

\* the call sargs made on implementation m
RunOn(m) ==
    CASE sargs.fn = "sign_bundle" ->
            LET r == sign_bundle(m, sargs.bundled_transactions, InitialHeap,
                                 sargs.count, sargs.gas)
            IN  [err |-> r.err, out |-> IF r.err = "" THEN r.out ELSE <<>>]
      [] sargs.fn = "bundle_wait" -> bundle_wait(m, sargs.reads, sargs.target, <<>>)
      [] sargs.fn = "private_wait" -> private_wait(m, sargs.answers, sargs.deadline, <<>>)

BothInit ==
    /\ SignIdle
    /\ TrackIdle
    /\ ThreadsIdle
    /\ ProvIdle
    /\ LateIdle
    /\ sop = "both"
    /\ sargs \in BothCalls
    /\ spc = "called"
    /\ slocal = EmptyDict
    /\ sret = NoReturn
    /\ serr = ""
    /\ head = 0
    /\ stamps = EmptyDict

\* the call on the blocking implementation
RunBlocking ==
    /\ sop = "both"
    /\ "sync" \notin DOMAIN slocal
    /\ slocal' = Put(slocal, "sync", RunOn("sync"))
    /\ spc' = IF DOMAIN slocal' = {"sync", "async"} THEN "returned" ELSE "called"
    /\ UNCHANGED <<sop, sargs, sret, serr, head, stamps>>
    /\ UNCHANGED <<signVars, trackVars, thread, provVars, lateVars>>

\* the call on the cooperative implementation
RunCooperative ==
    /\ sop = "both"
    /\ "async" \notin DOMAIN slocal
    /\ slocal' = Put(slocal, "async", RunOn("async"))
    /\ spc' = IF DOMAIN slocal' = {"sync", "async"} THEN "returned" ELSE "called"
    /\ UNCHANGED <<sop, sargs, sret, serr, head, stamps>>
    /\ UNCHANGED <<signVars, trackVars, thread, provVars, lateVars>>

BothNext ==
    \/ RunBlocking
    \/ RunCooperative

SpecBoth == BothInit /\ [][BothNext]_vars

(***************************************************************************)
(* C17: given the same answers of the chain-state reader, the blocking and *)
(* the cooperative implementation behave alike: their waits make the same  *)
(* reads and sleeps and return the same outcome, and their sign_bundle     *)
(* returns the same output or the same error.  The cooperative sign_bundle *)
(* has no FullyDecoded branch and raises on a specification the blocking   *)
(* one signs; on a specification of no known shape it raises and the       *)
(* blocking one goes on (C5).                                              *)
(***************************************************************************)
C17_SameBehaviour ==
    (sop = "both" /\ spc = "returned") => slocal["sync"] = slocal["async"]

(***************************************************************************)
(* C18: a FullyDecoded entry of sender a and nonce n seeds the ledger as a *)
(* RawSigned entry does: a SignerPlusFields entry of a with no nonce that  *)
(* follows, no entry of a between, is signed with nonce n + 1.  The        *)
(* FullyDecoded branch of the code leaves the ledger alone.                *)
(***************************************************************************)
DecodedThenSigner(j, l) ==
    /\ j < l
    /\ IsDictTx(bundled_transactions[j])
    /\ PlainSigner(l)
    /\ EntrySender(bundled_transactions[j]) = EntrySender(bundled_transactions[l])
    /\ \A m \in (j + 1)..(l - 1) :
          EntrySender(bundled_transactions[m]) # EntrySender(bundled_transactions[j])

C18_DecodedSeedsLedger ==
    \A j, l \in 1..Len(bundled_transactions) :
        (DecodedThenSigner(j, l) /\ Processed(l)) =>
            OutputOf(l).nonce = bundled_transactions[j].nonce + 1

(***************************************************************************)
(* C19: signing a SignerPlusFields entry with no nonce, sign_bundle asks   *)
(* the reader for the sender's transaction count only if the ledger holds  *)
(* no entry for the sender.  The code evaluates the query as the default   *)
(* argument of nonces.get, whatever the ledger holds.                      *)
(***************************************************************************)
\* the ledger holds an entry for a when the loop reaches entry j
LedgerHoldsAt(j, a) ==
    \E k \in 1..(j - 1) :
        /\ IsRawTx(bundled_transactions[k]) \/ IsSignerTx(bundled_transactions[k])
        /\ EntrySender(bundled_transactions[k]) = a

C19_QueryOnlyWhenMissing ==
    \A n \in 1..Len(queries) : ~LedgerHoldsAt(queries[n].entry, queries[n].address)

(***************************************************************************)
(* C20: the first seeding of a sender's ledger entry wins: a later         *)
(* RawSigned entry of the sender does not reseed it, and the no-nonce      *)
(* SignerPlusFields entries that follow continue from the first seed.      *)
(***************************************************************************)
\* the entries of a that write the ledger
LedgerEntries(a) ==
    {j \in EntriesOf(a) : IsRawTx(bundled_transactions[j]) \/ IsSignerTx(bundled_transactions[j])}

\* what the first ledger entry of a leaves in the ledger
FirstSeed(a) ==
    LET j == Min(LedgerEntries(a))
    IN  IF IsRawTx(bundled_transactions[j])
        THEN bundled_transactions[j].signed_transaction.nonce + 1
        ELSE OutputOf(j).nonce + 1

PlainSignersIn(a, lo, hi) ==
    Cardinality({k \in LedgerEntries(a) : lo < k /\ k < hi /\ IsSignerTx(bundled_transactions[k])})

LastRawBefore(a, l) ==
    LET raws == {k \in LedgerEntries(a) : k < l /\ IsRawTx(bundled_transactions[k])}
    IN  IF raws = {} THEN 0 ELSE CHOOSE k \in raws : \A m \in raws : m <= k

IsLookup(e) == e.ev = "get_transaction"

C21_PrivateWaitExact ==
    (tracker.kind = "private" /\ method = "wait") =>
        LET deadline == tracker.max_block_number
            last == Len(trace)
        IN  /\ tpc # "raised"
            /\ \A n \in 1..last :
                  LET e == trace[n]
                  IN  /\ (IsLookup(e) /\ e.found) =>
                            (n = last /\ tpc = "done" /\ tret = Bool(TRUE))
                      /\ (IsLookup(e) /\ ~e.found) =>
                            IF n = last THEN tpc = "deadline" ELSE IsRead(trace[n + 1])
                      /\ IsRead(e) => (n > 1 /\ IsLookup(trace[n - 1]))
                      /\ (IsRead(e) /\ e.value > deadline) =>
                            (n = last /\ tpc = "done" /\ tret = Bool(FALSE))
                      /\ (IsRead(e) /\ e.value <= deadline) =>
                            IF n = last THEN tpc = "sleep" ELSE IsSleep(trace[n + 1])
                      /\ IsSleep(e) =>
                            IF n = last THEN tpc = "poll" ELSE IsLookup(trace[n + 1])
            /\ tpc = "done" =>
                  /\ last > 0
                  /\ tret = Bool(TRUE) <=> IsLookup(trace[last])
                  /\ tret = Bool(FALSE) <=> IsRead(trace[last])

\* a height equal to the deadline gave a sleep, and the next lookup found the
\* transaction with the chain already past the deadline: True
C21_Witness ==
    /\ tracker.kind = "private"
    /\ method = "wait"
    /\ tpc = "done"
    /\ tret = Bool(TRUE)
    /\ Len(trace) = 4
    /\ trace[2].value = tracker.max_block_number
    /\ height > tracker.max_block_number

(***************************************************************************)
(* Several calls, one after the other, on one private transaction tracker. *)
(* The tracker object holds w3, max_block_number and tx and nothing else:  *)
(* a call leaves nothing behind in it, and the next call polls the chain   *)
(* as the first did.  history keeps what the earlier calls reported.       *)
(***************************************************************************)
MaxCalls == 2        \* most calls made on one tracker

AgainInit ==
    /\ TrackInit
    /\ tracker.kind = "private"

\* the caller calls wait() or receipt() on the tracker once more
CallAgain ==
    /\ tpc \in {"done", "raised"}
    /\ Len(history) + 1 < MaxCalls
    /\ history' = Append(history, [method |-> method, ret |-> tret, err |-> terr])
    /\ method' \in {"wait", "receipt"}
    /\ tpc' = "poll"
    /\ fetched' = <<>>
    /\ trace' = <<>>
    /\ tret' = NoReturn
    /\ terr' = ""
    /\ UNCHANGED <<impl, tracker, height, txstate>>
    /\ UNCHANGED <<signVars, thread, simVars, provVars, mw, handed, mw_ret>>

AgainNext ==
    \/ PrivateLookup
    \/ PrivateDeadline
    \/ PrivateReceipt
    \/ Sleep
    \/ ChainStep
    \/ TxStep
    \/ CallAgain

SpecAgain == AgainInit /\ [][AgainNext]_vars

(***************************************************************************)
(* C22: Mined and Expired are terminal: once a call on the tracker has     *)
(* reported Expired (wait() False, receipt() None), a later call makes no  *)
(* chain lookup and reports Expired again, and likewise once a call has    *)
(* reported Mined (wait() True, receipt() a receipt).  The tracker keeps   *)
(* no state: every call polls anew and reports what the chain says then.   *)
(***************************************************************************)
ReportsExpired(r) == r \in {Bool(FALSE), None}

ReportsMined(r) == r \in {Bool(TRUE), Receipt(tracker.tx.hash)}

C22_TerminalStates ==
    \A k \in 1..Len(history) :
        /\ ReportsExpired(history[k].ret) =>
              /\ trace = <<>>
              /\ tpc = "done" => ReportsExpired(tret)
        /\ ReportsMined(history[k].ret) =>
              /\ trace = <<>>
              /\ tpc = "done" => ReportsMined(tret)

(***************************************************************************)
(* The polling loops of wait() as they run on: the same steps as above     *)
(* with no record kept of the reads and sleeps, so that a loop can go      *)
(* round any number of times.  The thread (or task) running the loop is    *)
(* scheduled fairly: a step of the loop that stays possible is taken.  The *)
(* chain is under no obligation.                                           *)
(***************************************************************************)
LiveInit ==
    /\ SignIdle
    /\ ThreadsIdle
    /\ ExtIdle
    /\ impl \in {"sync", "async"}
    /\ tracker \in { FlashbotsBundleResponse(<<T1>>, t) : t \in Heights }
                   \cup { FlashbotsPrivateTransactionResponse(T1, m) : m \in Heights }
    /\ method = "wait"
    /\ tpc = "poll"
    /\ fetched = <<>>
    /\ height \in Heights
    /\ txstate \in [TrackedHashes -> {"unknown", "pending", "mined"}]
    /\ trace = <<>>
    /\ tret = NoReturn
    /\ terr = ""

\* FlashbotsBundleResponse.wait: one evaluation of the loop condition
PollBundle ==
    /\ tpc = "poll"
    /\ tracker.kind = "bundle"
    /\ IF BelowTarget(block_number, tracker.target_block_number)
       THEN tpc' = "sleep" /\ tret' = tret
       ELSE tpc' = "done" /\ tret' = None
    /\ UNCHANGED <<impl, tracker, method, fetched, height, txstate, trace, terr>>
    /\ UNCHANGED <<signVars, thread, extVars>>

\* FlashbotsPrivateTransactionResponse.wait: the lookup of the try block
PollLookup ==
    /\ tpc = "poll"
    /\ tracker.kind = "private"
    /\ IF get_transaction(tracker.tx.hash)
       THEN tpc' = "done" /\ tret' = Bool(TRUE)
       ELSE tpc' = "deadline" /\ tret' = tret
    /\ UNCHANGED <<impl, tracker, method, fetched, height, txstate, trace, terr>>
    /\ UNCHANGED <<signVars, thread, extVars>>

\* FlashbotsPrivateTransactionResponse.wait: the except block
PollDeadline ==
    /\ tpc = "deadline"
    /\ IF PastDeadline(block_number, tracker.max_block_number)
       THEN tpc' = "done" /\ tret' = Bool(FALSE)
       ELSE tpc' = "sleep" /\ tret' = tret
    /\ UNCHANGED <<impl, tracker, method, fetched, height, txstate, trace, terr>>
    /\ UNCHANGED <<signVars, thread, extVars>>

\* time.sleep(1) / await asyncio.sleep(1) is over
PollSleep ==
    /\ tpc = "sleep"
    /\ tpc' = "poll"
    /\ UNCHANGED <<impl, tracker, method, fetched, height, txstate, trace, tret, terr>>
    /\ UNCHANGED <<signVars, thread, extVars>>

LiveNext ==
    \/ PollBundle
    \/ PollLookup
    \/ PollDeadline
    \/ PollSleep
    \/ ChainStep
    \/ TxStep

\* the polling loop is scheduled fairly
PollFairness ==
    /\ WF_vars(PollBundle)
    /\ WF_vars(PollLookup)
    /\ WF_vars(PollDeadline)
    /\ WF_vars(PollSleep)

SpecLive == LiveInit /\ [][LiveNext]_vars /\ PollFairness

(***************************************************************************)
(* C23: under fair scheduling of the polling loop, if the block height     *)
(* eventually is above max_block_number and stays above it, the wait() of  *)
(* a private transaction tracker eventually returns.                       *)
(***************************************************************************)
PastForGood == <>[](tracker.kind = "private" /\ height > tracker.max_block_number)

C23_PrivateWaitEnds == PastForGood => <>(tpc = "done")

\* the wait returned False, the transaction unknown and the chain past the deadline
C23_Witness ==
    /\ tracker.kind = "private"
    /\ trace = <<>>
    /\ tpc = "done"
    /\ tret = Bool(FALSE)
    /\ ~get_transaction(tracker.tx.hash)
    /\ height > tracker.max_block_number

(***************************************************************************)
(* C24: under fair scheduling of the polling loop, if the block height     *)
(* eventually is at or above target_block_number and never falls below it  *)
(* again, the wait() of a bundle tracker eventually returns; if the height *)
(* is below the target for ever, the wait() never returns.                 *)
(***************************************************************************)
AtTargetForGood == <>[](tracker.kind = "bundle" /\ height >= tracker.target_block_number)

NeverAtTarget == [](tracker.kind = "bundle" /\ height < tracker.target_block_number)

C24_BundleWaitEnds ==
    /\ AtTargetForGood => <>(tpc = "done")
    /\ NeverAtTarget => [](tpc # "done")

\* the wait returned with the chain at the target, a target above block 0
C24_Witness ==
    /\ tracker.kind = "bundle"
    /\ trace = <<>>
    /\ method = "wait"
    /\ tpc = "done"
    /\ tret = None
    /\ tracker.target_block_number > 0
    /\ height = tracker.target_block_number

(***************************************************************************)
(* C25: for every sendBundle call three sequences agree position by        *)
(* position: the list sign_bundle returned, the txs of the eth_sendBundle  *)
(* request and the entries of the tracker the call returned; the tracker's *)
(* n-th hash is the hash of the n-th transaction sent and its target block *)
(* is the blockNumber sent.  The request and the tracker the call creates  *)
(* are built from the signed list in order; the tracker the call returns   *)
(* is read from self.response and may be another call's (C6).              *)
(***************************************************************************)
C25_SequencesAgree ==
    \A t \in Threads :
        (thread[t].op = "send_bundle" /\ thread[t].pc = "returned") =>
            LET signed == thread[t].signed_txs
                sent == thread[t].params[1]
                returned == thread[t].ret
            IN  /\ Len(sent.txs) = Len(signed)
                /\ \A n \in 1..Len(signed) : sent.txs[n] = to_hex(signed[n])
                /\ returned.kind = "bundle"
                /\ Len(returned.bundle) = Len(signed)
                /\ \A n \in 1..Len(signed) :
                      /\ returned.bundle[n].signed_transaction = signed[n]
                      /\ returned.bundle[n].hash = keccak(signed[n])
                /\ sent.blockNumber = hex(returned.target_block_number)

(***************************************************************************)
(* C26: simulate called with no block_tag (or "latest") and no             *)
(* block_timestamp never ends in the negative-extrapolation error, and the *)
(* timestamp it sends is the timestamp of the head block it resolved as    *)
(* block number, also when the chain grows during the call.  simulate      *)
(* reads w3.eth.block_number once for the block number (line 244) and once *)
(* more for the extrapolation (line 247); a block in between makes the     *)
(* second read larger than the first.                                      *)
(***************************************************************************)
C26_LatestNeverNegative ==
    (/\ sop = "simulate"
     /\ sargs.block_tag \in {None, Latest}
     /\ sargs.block_timestamp = NoBlock) =>
        /\ serr # "NegativeExtrapolation"
        /\ "evm_timestamp" \in DOMAIN slocal =>
              slocal.evm_timestamp = stamps[slocal.block_number]
        /\ \A n \in 1..Len(relay) :
              relay[n].params[1].timestamp = stamps[slocal.block_number]

(***************************************************************************)
(* C27: when signing fails inside sendBundle, on a hash mismatch, on a     *)
(* RawSigned entry that cannot be decoded or on a specification of no      *)
(* supported shape, the call ends in that error at that entry: the loop    *)
(* does not go past it, nothing is sent to the relay, no tracker is stored *)
(* or returned.  The blocking sign_bundle raises on the first two and      *)
(* passes over a specification of no supported shape (C5), after which     *)
(* sendBundle stores a tracker and sends the request.                      *)
(***************************************************************************)
CannotBeSigned(tx) ==
    \/ HashMismatched(tx)
    \/ IsRawTx(tx) /\ ~parse_signed_tx(tx.signed_transaction).ok
    \/ IsOtherTx(tx)

C27_SigningFailureClean ==
    op = "send_bundle" =>
        /\ pc = "raised" =>
              (err # "" /\ relay = <<>> /\ response = NoResponse /\ ret = NoReturn)
        /\ \A j \in 1..Len(bundled_transactions) :
              CannotBeSigned(bundled_transactions[j]) =>
                  /\ i <= j
                  /\ pc \in {"loop", "raised"}
                  /\ relay = <<>> /\ response = NoResponse /\ ret = NoReturn

(***************************************************************************)
(* The Flashbots middleware: the function wrap_make_request (blocking) and *)
(* async_wrap_make_request (cooperative) return.  It is given a request    *)
(* and hands it to the relay provider or to make_request, the next handler *)
(* of the chain client, and returns what that handler returns or raises    *)
(* what it raises.                                                         *)
(***************************************************************************)
\* class FlashbotsRPC: the endpoints of the engine's methods
FlashbotsRPC ==
    { "eth_sendBundle", "eth_callBundle", "eth_cancelBundle",
      "eth_sendPrivateTransaction", "eth_cancelPrivateTransaction",
      "flashbots_getBundleStats", "flashbots_getUserStats",
      "flashbots_getBundleStatsV2", "flashbots_getUserStatsV2" }

\* middleware.py, FLASHBOTS_METHODS
FLASHBOTS_METHODS ==
    { "eth_sendBundle",
      "eth_callBundle",
      "eth_cancelBundle",
      "eth_sendPrivateTransaction",
      "eth_cancelPrivateTransaction",
      "flashbots_getBundleStats",
      "flashbots_getUserStats",
      "flashbots_getBundleStatsV2",
      "flashbots_getUserStatsV2" }

\* methods of the chain client
ChainMethods ==
    { "eth_blockNumber", "eth_getTransactionCount", "eth_estimateGas",
      "eth_getTransactionByHash", "eth_sendRawTransaction" }

MwRequests(n, m) ==
    { [pc |-> "called", n |-> n, impl |-> m, method |-> meth, params |-> ps] :
        meth \in FlashbotsRPC \cup ChainMethods, ps \in RelayParams }

\* what a handler does with a request: it answers or it raises
HandlerOutcomes(handler) ==
    { [kind |-> "response", from |-> handler], [kind |-> "error", from |-> handler] }

\* mutant: eth_cancelPrivateTransaction is left to the chain client
IsFlashbotsMethodButOne(method_) ==
    method_ \in FLASHBOTS_METHODS \ {"eth_cancelPrivateTransaction"}

\* if method in FLASHBOTS_METHODS
IsFlashbotsMethod(method_) == method_ \in FLASHBOTS_METHODS

MwInit ==
    /\ SignIdle
    /\ TrackIdle
    /\ ThreadsIdle
    /\ SimIdle
    /\ ProvIdle
    /\ history = <<>>
    /\ mw \in MwRequests(1, "sync") \cup MwRequests(1, "async")
    /\ handed = <<>>
    /\ mw_ret = NoReturn

\* the handler's answer is the middleware's
Handled(handler) ==
    /\ handed' = Append(handed, [handler |-> handler, method |-> mw.method,
                                 params |-> mw.params])
    /\ \E outcome \in HandlerOutcomes(handler) :
          /\ mw_ret' = outcome
          /\ mw' = [mw EXCEPT !.pc = IF outcome.kind = "error" THEN "raised" ELSE "returned"]
    /\ UNCHANGED <<signVars, trackVars, thread, simVars, provVars, history>>

\* return self.flashbots_provider.make_request(method, params)
MiddlewareRelay ==
    /\ mw.pc = "called"
    /\ IsFlashbotsMethod(mw.method)
    /\ Handled("flashbots_provider.make_request")

\* return make_request(method, params)
MiddlewarePass ==
    /\ mw.pc = "called"
    /\ ~IsFlashbotsMethod(mw.method)
    /\ Handled("make_request")

\* the next request of the chain client
MiddlewareRequest ==
    /\ mw.pc \in {"returned", "raised"}
    /\ mw.n < MaxRequests
    /\ mw' \in MwRequests(mw.n + 1, mw.impl)
    /\ mw_ret' = NoReturn
    /\ UNCHANGED <<signVars, trackVars, thread, simVars, provVars, history, handed>>

MwNext ==
    \/ MiddlewareRelay
    \/ MiddlewarePass
    \/ MiddlewareRequest

SpecMw == MwInit /\ [][MwNext]_vars

(***************************************************************************)
(* C28: the middleware hands every request to exactly one handler: the     *)
(* relay provider when its method is one of the nine relay methods, the    *)
(* next handler otherwise, in the blocking and in the cooperative          *)
(* middleware.  After n requests the handlers were given n requests, the   *)
(* k-th of them the k-th request with its method and params, and the       *)
(* answer of the middleware is the answer of that handler.                 *)
(***************************************************************************)
HandlerOf(method_) ==
    IF method_ \in FlashbotsRPC THEN "flashbots_provider.make_request" ELSE "make_request"

C28_OneHandler ==
    mw.pc # "none" =>
        /\ Len(handed) = IF mw.pc = "called" THEN mw.n - 1 ELSE mw.n
        /\ \A k \in 1..Len(handed) : handed[k].handler = HandlerOf(handed[k].method)
        /\ mw.pc \in {"returned", "raised"} =>
              /\ handed[mw.n] = [handler |-> HandlerOf(mw.method), method |-> mw.method,
                                 params |-> mw.params]
              /\ mw_ret.from = HandlerOf(mw.method)

\* the cooperative middleware gave a relay request to the provider and the next
\* request, one of the chain client, to make_request
C28_Witness ==
    /\ mw.pc = "returned"
    /\ mw.impl = "async"
    /\ Len(handed) = 2
    /\ handed[1] = [handler |-> "flashbots_provider.make_request",
                    method |-> "flashbots_getUserStatsV2", params |-> <<"p1">>]
    /\ handed[2] = [handler |-> "make_request", method |-> "eth_blockNumber",
                    params |-> <<"p2">>]

(***************************************************************************)
(* simulate and then sendBundle of the blocking engine, both given the     *)
(* same list of the same specification objects: the transaction dicts the  *)
(* first call wrote to are the ones the second call reads.  The reader     *)
(* answers each call as the chain is then.                                 *)
(***************************************************************************)
TwiceInit ==
    /\ TrackIdle
    /\ ThreadsIdle
    /\ ProvIdle
    /\ LateIdle
    /\ sop = "simulate"
    /\ sargs \in { [bundled_transactions |-> b, block_tag |-> None,
                     state_block_tag |-> NoBlock, block_timestamp |-> 5000] :
                      b \in SeqsUpTo(SpecPool, MaxBundle) }
    /\ spc = "resolve"
    /\ slocal = EmptyDict
    /\ sret = NoReturn
    /\ serr = ""
    /\ head \in HeadBlocks
    /\ stamps \in StampTables
    /\ mode = "sync"
    /\ op = "send_bundle"
    /\ bundled_transactions = sargs.bundled_transactions
    /\ target_block_number = 10
    /\ transaction = EmptyDict
    /\ max_block_number = NoBlock
    /\ heap0 = InitialHeap
    /\ heap = InitialHeap
    /\ pc = "idle"
    /\ i = 1
    /\ nonces = EmptyDict
    /\ signed_transactions = <<>>
    /\ err = ""
    /\ queries = <<>>
    /\ current_block = NoBlock
    /\ response = NoResponse
    /\ params = NoParams
    /\ relay = <<>>
    /\ ret = NoReturn

\* simulate returned: the caller calls sendBundle with the list simulate was given
SendBundleCall ==
    /\ sop = "simulate"
    /\ spc = "returned"
    /\ pc = "idle"
    /\ pc' = "loop"
    /\ heap0' = heap
    /\ UNCHANGED <<mode, op, bundled_transactions, target_block_number, transaction,
                   max_block_number, loopVars, sendVars, trackVars, thread, extVars>>

TwiceNext ==
    \/ SimResolve
    \/ SimTimestamp
    \/ SimSign
    \/ SimCallBundle
    \/ SendBundleCall
    \/ SignRaw
    \/ SignSigner
    \/ SignDict
    \/ SignOther
    \/ SignReturn
    \/ SendBundleMunger
    \/ RelayRequest
    \/ ResponseFormatter

SpecTwice == TwiceInit /\ [][TwiceNext]_vars

(***************************************************************************)
(* C29: sign_bundle writes from, nonce and gas into the caller's           *)
(* transaction dict of every SignerPlusFields entry, so that signing the   *)
(* same specification objects again, here simulate and then sendBundle,    *)
(* gives every entry the nonce it got the first time and the same signed   *)
(* transactions, whatever transaction count the chain reports the second   *)
(* time: the second signing does not fail and its output is the first's.   *)
(***************************************************************************)
SimulateSigned == sop = "simulate" /\ spc \in {"call", "returned"}

C29_ResignSameNonces ==
    (SimulateSigned /\ op = "send_bundle") =>
        /\ \A j \in 1..Len(bundled_transactions) :
              IsSignerTx(bundled_transactions[j]) =>
                  {"from", "nonce", "gas"} \subseteq DOMAIN heap[bundled_transactions[j].transaction]
        /\ pc # "raised"
        /\ pc = "loop" =>
              /\ Len(signed_transactions) <= Len(sret.signedBundledTransactions)
              /\ \A n \in 1..Len(signed_transactions) :
                    signed_transactions[n] = sret.signedBundledTransactions[n]
        /\ pc \in {"signed", "munged", "sent", "returned"} =>
              signed_transactions = sret.signedBundledTransactions

\* two entries of signer A with no nonce were signed by simulate and again by
\* sendBundle, with the same nonces both times
C29_Witness ==
    /\ SimulateSigned
    /\ op = "send_bundle"
    /\ pc = "returned"
    /\ bundled_transactions = <<[signer |-> "A", transaction |-> 1],
                                [signer |-> "A", transaction |-> 2]>>
    /\ Len(signed_transactions) = 2
    /\ signed_transactions[2].nonce = signed_transactions[1].nonce + 1
    /\ ret.bundle[1].signed_transaction = sret.signedBundledTransactions[1]
    /\ ret.bundle[2].signed_transaction = sret.signedBundledTransactions[2]

=============================================================================
